---- MODULE Spec2Model ----
(***************************************************************************)
(* A model of sync_deps_for_users.py: the synchronisation of the group     *)
(* hierarchy of a directory (the source) to the departments and users of   *)
(* a remote organisation (the target).                                     *)
(*                                                                         *)
(* Strings of the program are sequences of one-character strings, so that  *)
(* split, startswith, lower and strip are computed as Python computes      *)
(* them.  Dictionaries are records; the key '360id' is the field id360.    *)
(***************************************************************************)
EXTENDS Integers, Sequences, FiniteSets, TLC

VARIABLES
    ldap,          \* the source directory: groups and persons
    deps,          \* the remote departments, in the order the API lists them
    users,         \* the remote users, in the order the API lists them
    failing,       \* the endpoints of the remote service that answer non-OK
    dry_run,       \* settings.dry_run
    keep_empty,    \* settings.keep_empty_external_id_in_y360
    all_users,     \* settings.all_users, the cached user listing
    hierarchy,     \* the canonical entry lines of the run
    final_list,    \* the department list built from the hierarchy
    deps_to_delete,\* the candidates the deletion of the current run found
    rec_log,       \* how the reconciler of the current run settled each node
    ops,           \* the changes computed so far, in order, all runs
    run,           \* the number of the current run
    start_deps,    \* the remote departments when the current run started
    start_users,   \* the remote users when the current run started
    pc,            \* the position of the main program
    load_ad_data_from_file, \* settings.load_ad_data_from_file
    ad_data_file,  \* the lines of the file settings.ad_data_file names, or NoFile
    call           \* the remote call in progress, attempt by attempt

vars == <<ldap, deps, users, failing, dry_run, keep_empty, all_users,
          hierarchy, final_list, deps_to_delete, rec_log, ops, run,
          start_deps, start_users, pc, load_ad_data_from_file, ad_data_file, call>>

-----------------------------------------------------------------------------
(* Strings *)

EmptyStr == <<>>
ALL == <<"A", "l", "l">>
HASH_ALL == <<"#", "a", "l", "l", "#">>
NONE_STR == <<"N", "o", "n", "e">>

\* str.lower() on one character
LowerChar(c) ==
    CASE c = "A" -> "a" [] c = "B" -> "b" [] c = "C" -> "c" [] c = "D" -> "d"
      [] c = "E" -> "e" [] c = "F" -> "f" [] c = "G" -> "g" [] c = "H" -> "h"
      [] c = "I" -> "i" [] c = "J" -> "j" [] c = "K" -> "k" [] c = "L" -> "l"
      [] c = "M" -> "m" [] c = "N" -> "n" [] c = "O" -> "o" [] c = "P" -> "p"
      [] c = "Q" -> "q" [] c = "R" -> "r" [] c = "S" -> "s" [] c = "T" -> "t"
      [] c = "U" -> "u" [] c = "V" -> "v" [] c = "W" -> "w" [] c = "X" -> "x"
      [] c = "Y" -> "y" [] c = "Z" -> "z"
      [] OTHER -> c

Lower(s) == [i \in 1..Len(s) |-> LowerChar(s[i])]

\* str.strip(): leading and trailing blanks removed
Strip(s) ==
    LET keep == {i \in 1..Len(s) : s[i] # " "}
    IN  IF keep = {} THEN EmptyStr
        ELSE LET lo == CHOOSE i \in keep : \A j \in keep : i <= j
                 hi == CHOOSE i \in keep : \A j \in keep : j <= i
             IN  SubSeq(s, lo, hi)

\* c in s, for a one-character c
Contains(s, c) == \E i \in 1..Len(s) : s[i] = c

\* s.startswith(p)
StartsWith(s, p) == Len(p) <= Len(s) /\ SubSeq(s, 1, Len(p)) = p

\* s.split(d), for a one-character d
RECURSIVE Split(_, _)
Split(s, d) ==
    IF ~Contains(s, d) THEN <<s>>
    ELSE LET k == CHOOSE i \in 1..Len(s) :
                      s[i] = d /\ \A j \in 1..(i - 1) : s[j] # d
         IN  <<SubSeq(s, 1, k - 1)>> \o Split(SubSeq(s, k + 1, Len(s)), d)

\* d.join(parts)
RECURSIVE Join(_, _)
Join(parts, d) ==
    IF Len(parts) = 0 THEN EmptyStr
    ELSE IF Len(parts) = 1 THEN parts[1]
    ELSE parts[1] \o <<d>> \o Join(Tail(parts), d)

Last(s) == s[Len(s)]
Range(s) == {s[i] : i \in 1..Len(s)}

\* sorted(seq, key=...) with keys[i] the key of seq[i]: stable, ascending, or
\* with reverse=True descending with equal keys left in their order
SortedBy(seq, keys, reverse) ==
    LET n == Len(seq)
        Before(j, i) == IF keys[j] = keys[i] THEN j < i
                        ELSE IF reverse THEN keys[j] > keys[i]
                        ELSE keys[j] < keys[i]
        pos(i) == 1 + Cardinality({j \in 1..n : Before(j, i)})
    IN  [p \in 1..n |-> seq[CHOOSE i \in 1..n : pos(i) = p]]

\* the index of the first element of seq with Test, or 0: next((...), None)
FirstIdx(seq, Test(_)) ==
    IF \E i \in 1..Len(seq) : Test(seq[i])
    THEN CHOOSE i \in 1..Len(seq) : Test(seq[i]) /\ \A j \in 1..(i - 1) : ~Test(seq[j])
    ELSE 0

-----------------------------------------------------------------------------
(* The remote service: departments and users, and what a call does to them *)

ROOT_ID == 1

RootDep == [id |-> ROOT_ID, parentId |-> 0, name |-> ALL, label |-> EmptyStr,
            externalId |-> EmptyStr]

DepIds(ds) == {ds[i].id : i \in 1..Len(ds)}

DepById(ds, id) == ds[CHOOSE i \in 1..Len(ds) : ds[i].id = id]

\* id is d or lies below d in the tree ds
RECURSIVE IsBelowOrSelf(_, _, _)
IsBelowOrSelf(ds, id, d) ==
    IF id = d THEN TRUE
    ELSE IF id = ROOT_ID \/ id \notin DepIds(ds) THEN FALSE
    ELSE IsBelowOrSelf(ds, DepById(ds, id).parentId, d)

NextDepId(ds) == 1 + (CHOOSE m \in DepIds(ds) : \A k \in DepIds(ds) : k <= m)

\* POST /departments: the service answers OK and appends the department
ServiceCreate(ds, info) ==
    Append(ds, [id |-> NextDepId(ds), parentId |-> info.parentId, name |-> info.name,
                label |-> info.label, externalId |-> info.externalId])

\* the service refuses a parent that does not exist
ServiceCreateOk(ds, info) == info.parentId \in DepIds(ds)

\* PATCH /departments/{id}
ServicePatchDepOk(ds, id, data) ==
    /\ id \in DepIds(ds) /\ id # ROOT_ID
    /\ data.field = "parentId" =>
          /\ data.parentId \in DepIds(ds)
          /\ ~IsBelowOrSelf(ds, data.parentId, id)

ServicePatchDep(ds, id, data) ==
    [i \in 1..Len(ds) |->
        IF ds[i].id # id THEN ds[i]
        ELSE IF data.field = "name" THEN [ds[i] EXCEPT !.name = data.value]
        ELSE IF data.field = "label" THEN [ds[i] EXCEPT !.label = data.value]
        ELSE [ds[i] EXCEPT !.parentId = data.parentId]]

\* DELETE /departments/{id}: the service keeps the root, and a department
\* that still has sub-departments or members
ServiceDeleteOk(ds, us, id) ==
    /\ id \in DepIds(ds) /\ id # ROOT_ID
    /\ \A i \in 1..Len(ds) : ds[i].parentId # id
    /\ \A i \in 1..Len(us) : us[i].departmentId # id

ServiceDelete(ds, id) == SelectSeq(ds, LAMBDA d : d.id # id)

\* PATCH /users/{id}
ServicePatchUserOk(ds, us, id, dep) ==
    /\ \E i \in 1..Len(us) : us[i].id = id
    /\ dep \in DepIds(ds)

ServicePatchUser(us, id, dep) ==
    [i \in 1..Len(us) |-> IF us[i].id = id THEN [us[i] EXCEPT !.departmentId = dep]
                          ELSE us[i]]

\* POST /users: the service refuses a department that does not exist and a
\* nickname that is taken
ServiceCreateUserOk(ds, us, user) ==
    /\ user.departmentId \in DepIds(ds)
    /\ \A i \in 1..Len(us) : us[i].nickname # user.nickname

\* the user is appended under the next identifier
ServiceCreateUser(us, user) ==
    LET ids == {us[i].id : i \in 1..Len(us)}
        last == IF ids = {} THEN 0 ELSE CHOOSE m \in ids : \A k \in ids : k <= m
    IN  Append(us, [id |-> last + 1, nickname |-> user.nickname, aliases |-> <<>>,
                    departmentId |-> user.departmentId, isRobot |-> FALSE])

-----------------------------------------------------------------------------
(* The calls of the program to the service *)

\* an operation: the change computed, whether the call was issued (it is not
\* in a dry run) and whether the service answered OK.  id is the department or
\* user the call names (0 for a create), arg the parentId or departmentId sent
Op(kind, phase, id, ext, arg, field, value, issued, ok, r) ==
    [kind |-> kind, phase |-> phase, id |-> id, ext |-> ext, arg |-> arg,
     field |-> field, value |-> value, issued |-> issued, ok |-> ok, run |-> r]

\* the remote state and the log a phase works on: [deps, users, ops]
Remote(ds, us, os) == [deps |-> ds, users |-> us, ops |-> os]

\* ctx: [fl: failing endpoints, dry: dry run, run, phase]
patch_user_by_api(R, ctx, user_id, dep) ==
    LET ok == /\ ~ctx.dry /\ "PATCH_user" \notin ctx.fl
              /\ ServicePatchUserOk(R.deps, R.users, user_id, dep)
    IN  Remote(R.deps,
               IF ok THEN ServicePatchUser(R.users, user_id, dep) ELSE R.users,
               Append(R.ops, Op("patch_user", ctx.phase, user_id, EmptyStr, dep,
                                "departmentId", EmptyStr, ~ctx.dry, ok, ctx.run)))

\* what delete_deps_from_y360 would do if it called the service in a dry run too
delete_department_by_api_InDryRun(R, ctx, dep_id) ==
    LET ok == /\ "DELETE_department" \notin ctx.fl
              /\ ServiceDeleteOk(R.deps, R.users, dep_id)
    IN  Remote(IF ok THEN ServiceDelete(R.deps, dep_id) ELSE R.deps,
               R.users,
               Append(R.ops, Op("delete", ctx.phase, dep_id, EmptyStr, 0,
                                "", EmptyStr, TRUE, ok, ctx.run)))

delete_department_by_api(R, ctx, dep_id) ==
    LET ok == /\ ~ctx.dry /\ "DELETE_department" \notin ctx.fl
              /\ ServiceDeleteOk(R.deps, R.users, dep_id)
    IN  Remote(IF ok THEN ServiceDelete(R.deps, dep_id) ELSE R.deps,
               R.users,
               Append(R.ops, Op("delete", ctx.phase, dep_id, EmptyStr, 0,
                                "", EmptyStr, ~ctx.dry, ok, ctx.run)))

\* info: [name, parentId, externalId, label]
create_department_by_api(R, ctx, info) ==
    LET ok == /\ ~ctx.dry /\ "POST_department" \notin ctx.fl
              /\ ServiceCreateOk(R.deps, info)
    IN  Remote(IF ok THEN ServiceCreate(R.deps, info) ELSE R.deps,
               R.users,
               Append(R.ops, Op("create", ctx.phase, 0, info.externalId, info.parentId,
                                "", info.name, ~ctx.dry, ok, ctx.run)))

\* data: [field, value, parentId]
patch_department_by_api(R, ctx, dep_id, data) ==
    LET ok == /\ ~ctx.dry /\ "PATCH_department" \notin ctx.fl
              /\ ServicePatchDepOk(R.deps, dep_id, data)
    IN  Remote(IF ok THEN ServicePatchDep(R.deps, dep_id, data) ELSE R.deps,
               R.users,
               Append(R.ops, Op("patch_dep", ctx.phase, dep_id, EmptyStr, data.parentId,
                                data.field, data.value, ~ctx.dry, ok, ctx.run)))

get_all_api360_departments(ds, fl) ==
    IF "GET_departments" \in fl THEN <<>> ELSE ds

\* the membersCount the listing gives a department: the users in it
MembersCount(us, id) == Cardinality({i \in 1..Len(us) : us[i].departmentId = id})

\* delete_department_by_api on each department of a list, in its order
RECURSIVE DeleteEach(_, _, _, _)
DeleteEach(R, ctx, ids, k) ==
    IF k > Len(ids) THEN R
    ELSE DeleteEach(delete_department_by_api(R, ctx, ids[k]), ctx, ids, k + 1)

\* delete_all_departments: every department listed, the root too, and in a
\* dry run as well.  No statement of the program calls it: it is no step
\* of the main program
delete_all_departments(R, ctx) ==
    LET departments == get_all_api360_departments(R.deps, ctx.fl)
    IN  DeleteEach(R, [ctx EXCEPT !.dry = FALSE],
                   [i \in 1..Len(departments) |-> departments[i].id], 1)

\* delete_deps_with_no_users: the departments listed, the root left out, whose
\* membersCount is 0.  The one call of it, at line 1100, is a comment: it is
\* no step of the main program
delete_deps_with_no_users(R, ctx) ==
    LET all_deps_from_api == get_all_api360_departments(R.deps, ctx.fl)
        empty == SelectSeq(all_deps_from_api, LAMBDA dep :
                     dep.id # 1 /\ MembersCount(R.users, dep.id) = 0)
    IN  DeleteEach(R, ctx, [i \in 1..Len(empty) |-> empty[i].id], 1)

\* isRobot marks a user the listing leaves out: a robot, or an account whose
\* id is below the range of the accounts of the organization
get_all_api360_users_from_api(us, fl) ==
    IF "GET_users" \in fl THEN <<>>
    ELSE SelectSeq(us, LAMBDA u : ~u.isRobot)

-----------------------------------------------------------------------------
(* The Remote Tree Loader *)

RECURSIVE WalkPath(_, _, _)
WalkPath(all, prevId, path) ==
    IF prevId = 1 THEN path
    ELSE LET d == DepById(all, prevId)
         IN  WalkPath(all, d.parentId, Strip(d.name) \o <<";">> \o path)

\* the element as it would be with the name of the department alone as path
ApiElement_OwnName(all, item) ==
    LET prevId == item.parentId
        externalId == IF item.id = 1 THEN HASH_ALL ELSE Lower(item.externalId)
        prev0 == IF item.id = 1 THEN EmptyStr
                 ELSE Lower(DepById(all, prevId).externalId)
        previous_external_id == IF prevId = 1 THEN HASH_ALL ELSE prev0
    IN  [id |-> item.id, parentId |-> item.parentId,
         path |-> Strip(item.name),
         mail |-> Lower(item.label), externalId |-> externalId,
         prevExternalId |-> previous_external_id]

ApiElement(all, item) ==
    LET prevId == item.parentId
        externalId == IF item.id = 1 THEN HASH_ALL ELSE Lower(item.externalId)
        prev0 == IF item.id = 1 THEN EmptyStr
                 ELSE Lower(DepById(all, prevId).externalId)
        previous_external_id == IF prevId = 1 THEN HASH_ALL ELSE prev0
    IN  [id |-> item.id, parentId |-> item.parentId,
         path |-> WalkPath(all, prevId, Strip(item.name)),
         mail |-> Lower(item.label), externalId |-> externalId,
         prevExternalId |-> previous_external_id]

generate_deps_list_from_api(ds, fl) ==
    LET all_deps_from_api == get_all_api360_departments(ds, fl)
    IN  IF Len(all_deps_from_api) = 1 THEN <<>>
        ELSE LET kept == SelectSeq(all_deps_from_api, LAMBDA item : item.parentId > 0)
             IN  [i \in 1..Len(kept) |-> ApiElement(all_deps_from_api, kept[i])]

-----------------------------------------------------------------------------
(* The Hierarchy Encoder.  The directory is a sequence of groups           *)
(* [dn, cn, name, mail, externalId, sam, memberOf] and a sequence of        *)
(* persons [mail, ex14, displayName, cn]; an attribute without a value is   *)
(* the empty string, and its .value is None.                                *)

GroupLine(path, group_mail, previous_external_id, external_id) ==
    path \o <<"~">> \o group_mail \o <<"~">> \o previous_external_id
         \o <<";">> \o external_id

UserLine(path, user) == path \o <<"|">> \o user.displayName \o <<";">> \o user.mail

\* the name of a group: the name attribute, or cn when the group has none;
\* None is formatted into the line as it prints
GroupName(item) ==
    IF Len(item.name) > 0 THEN item.name
    ELSE IF Len(item.cn) > 0 THEN item.cn ELSE NONE_STR

\* the first search raises: a person with a mail has neither displayName nor
\* cn, and None has no lower()
UsersRaise(L) ==
    \E i \in 1..Len(L.persons) :
        /\ Len(L.persons[i].mail) > 0
        /\ Len(L.persons[i].displayName) = 0
        /\ Len(L.persons[i].cn) = 0

\* the persons with a mail, as the first search collects them; a person
\* without displayName is listed under its cn
LdapUsers(L) ==
    LET withMail == SelectSeq(L.persons, LAMBDA p : Len(p.mail) > 0)
    IN  [i \in 1..Len(withMail) |->
            [mail |-> Strip(Lower(withMail[i].mail)),
             extensionAttribute14 |-> Strip(Lower(withMail[i].ex14)),
             displayName |-> IF Len(withMail[i].displayName) > 0
                             THEN Strip(Lower(withMail[i].displayName))
                             ELSE Strip(Lower(withMail[i].cn))]]

\* the lines of the users whose extensionAttribute14 names the group
GroupUserLines(L, path, sam_name) ==
    LET mine == SelectSeq(LdapUsers(L), LAMBDA u :
                    Len(u.extensionAttribute14) > 0 /\ u.extensionAttribute14 = sam_name)
    IN  [i \in 1..Len(mine) |-> UserLine(path, mine[i])]

\* the answer to the search (memberOf=item)
MembersOf(L, item) == SelectSeq(L.groups, LAMBDA g : item.dn \in g.memberOf)

RECURSIVE build_hierarcy_recursive(_, _, _, _)
RECURSIVE BuildLoop(_, _, _, _, _, _)

\* [h: the hierarchy returned, raised: an exception left the call]
build_hierarcy_recursive(L, base, item, hier) ==
    IF Len(item.externalId) = 0
    THEN [h |-> hier, raised |-> TRUE]
    ELSE BuildLoop(L, base, Strip(Lower(item.externalId)), MembersOf(L, item), 1, hier)

\* the loop as it would be if the lines of the members of a group were
\* written after the groups below it
BuildLoop_MembersLast(L, base, previous_external_id, entries, k, hier) ==
    IF k > Len(entries) THEN [h |-> hier, raised |-> FALSE]
    ELSE IF Len(entries[k].sam) = 0 THEN [h |-> <<>>, raised |-> FALSE]
    ELSE LET it == entries[k]
             sam_name == Strip(Lower(it.sam))
             group_mail == Strip(Lower(it.mail))
             external_id == Strip(Lower(it.externalId))
             previuos == base \o <<";">> \o GroupName(it)
             h1 == Append(hier, GroupLine(previuos, group_mail,
                                          previous_external_id, external_id))
             r == build_hierarcy_recursive(L, previuos, it, h1)
         IN  IF r.raised THEN [h |-> <<>>, raised |-> FALSE]
             ELSE BuildLoop(L, base, previous_external_id, entries, k + 1,
                            r.h \o GroupUserLines(L, previuos, sam_name))

\* the loop over the answer; a group without sAMAccountName raises inside the
\* try (None has no lower()) and the call returns []; so does the call
\* below a group when it raises at its entry
BuildLoop(L, base, previous_external_id, entries, k, hier) ==
    IF k > Len(entries) THEN [h |-> hier, raised |-> FALSE]
    ELSE IF Len(entries[k].sam) = 0 THEN [h |-> <<>>, raised |-> FALSE]
    ELSE LET it == entries[k]
             sam_name == Strip(Lower(it.sam))
             group_mail == Strip(Lower(it.mail))
             external_id == Strip(Lower(it.externalId))
             previuos == base \o <<";">> \o GroupName(it)
             h1 == Append(hier, GroupLine(previuos, group_mail,
                                          previous_external_id, external_id))
                      \o GroupUserLines(L, previuos, sam_name)
             r == build_hierarcy_recursive(L, previuos, it, h1)
         IN  IF r.raised THEN [h |-> <<>>, raised |-> FALSE]
             ELSE BuildLoop(L, base, previous_external_id, entries, k + 1, r.h)

\* [h, raised, saved: the hierarchy has been written to settings.ad_data_file];
\* the root group is the first group of the directory with L.root
build_group_hierarchy(L) ==
    LET found == SelectSeq(L.groups, LAMBDA g : g.dn = L.root)
    IN  IF UsersRaise(L) \/ Len(found) = 0
        THEN [h |-> <<>>, raised |-> FALSE, saved |-> FALSE]
        ELSE LET item == found[1]
                 name == GroupName(item)
                 external_id == Strip(Lower(item.externalId))
                 group_mail == Strip(Lower(item.mail))
                 h0 == <<GroupLine(name, group_mail, HASH_ALL, external_id)>>
                          \o (IF Len(item.sam) > 0
                              THEN GroupUserLines(L, name, Strip(Lower(item.sam)))
                              ELSE <<>>)
                 r == build_hierarcy_recursive(L, name, item, h0)
             IN  [h |-> r.h, raised |-> r.raised, saved |-> ~r.raised]

\* no file at the path settings.ad_data_file names: the one value of
\* ad_data_file that is no sequence of lines of characters
NoFile == << <<"absent">> >>

\* [h: the lines of the file, stripped, the empty ones left out,
\*  raised: open() has found no file]
load_heirarchy_from_file(file) ==
    IF file = NoFile THEN [h |-> <<>>, raised |-> TRUE]
    ELSE LET stripped == [i \in 1..Len(file) |-> Strip(file[i])]
         IN  [h |-> SelectSeq(stripped, LAMBDA line : Len(line) > 0),
              raised |-> FALSE]

-----------------------------------------------------------------------------
(* The Hierarchy Validator *)

IsGroupLine(item) == Contains(item, "~")
IsUserLine(item) == Contains(item, "|")

\* item.split('~')[2].split(';')[1] and [0]
LineExternalId(item) == Split(Split(item, "~")[3], ";")[2]
LinePrevExternalId(item) == Split(Split(item, "~")[3], ";")[1]

\* item.split('@')[0] of the mail of a line
UserLineAlias(item) == Split(Split(Split(item, "|")[2], ";")[2], "@")[1]
GroupLineAlias(item) == Split(Split(item, "~")[2], "@")[1]

\* the check as it would be if it reported the groups and went on
check_similar_groups_in_hierarchy_ReportOnly(hier) == Len(hier) >= 0

check_similar_groups_in_hierarchy(hier) ==
    LET groups == SelectSeq(hier, IsGroupLine)
    IN  \A i \in 1..Len(groups) :
            Cardinality({j \in 1..Len(groups) :
                LineExternalId(groups[j]) = LineExternalId(groups[i])}) <= 1

check_empty_external_id(hier) ==
    \A i \in 1..Len(hier) :
        IsGroupLine(hier[i]) => LineExternalId(hier[i]) # EmptyStr

\* the loop as it would be if it read the mails of the members only
RECURSIVE LoopAlias_MembersOnly(_, _)
LoopAlias_MembersOnly(hier, i) ==
    IF i = 0 THEN [alias |-> EmptyStr, raised |-> TRUE]
    ELSE IF IsUserLine(hier[i]) THEN [alias |-> UserLineAlias(hier[i]), raised |-> FALSE]
    ELSE IF IsGroupLine(hier[i]) THEN [alias |-> EmptyStr, raised |-> FALSE]
    ELSE LoopAlias_MembersOnly(hier, i - 1)

\* [alias: the alias the loop of check_similar_mails_in_hierarchy reads after
\*  line i, raised: the name alias is not bound yet]; a line that is neither a
\* user nor a group keeps the alias before it, and before the first line that
\* is one or the other there is none to read
RECURSIVE LoopAlias(_, _)
LoopAlias(hier, i) ==
    IF i = 0 THEN [alias |-> EmptyStr, raised |-> TRUE]
    ELSE IF IsUserLine(hier[i]) THEN [alias |-> UserLineAlias(hier[i]), raised |-> FALSE]
    ELSE IF IsGroupLine(hier[i]) THEN [alias |-> GroupLineAlias(hier[i]), raised |-> FALSE]
    ELSE LoopAlias(hier, i - 1)

\* [bad: the aliases counted more than once, in the order of their first line,
\*  raised: the loop has read the alias before any line has bound it]
BadAliases(hier) ==
    LET n == Len(hier)
        at(i) == LoopAlias(hier, i).alias
        count(a) == Cardinality({i \in 1..n : at(i) = a})
        firsts == SelectSeq([i \in 1..n |-> i], LAMBDA i :
                      /\ at(i) # EmptyStr
                      /\ count(at(i)) > 1
                      /\ \A j \in 1..(i - 1) : at(j) # at(i))
    IN  IF n > 0 /\ LoopAlias(hier, 1).raised
        THEN [bad |-> <<>>, raised |-> TRUE]
        ELSE [bad |-> [k \in 1..Len(firsts) |-> at(firsts[k])], raised |-> FALSE]

\* the lines one bad alias appends: each group line with that alias, again,
\* with its mail cleared
ClearedLines(hier, alias) ==
    LET hit == SelectSeq(hier, LAMBDA item :
                   ~IsUserLine(item) /\ IsGroupLine(item) /\ GroupLineAlias(item) = alias)
    IN  [i \in 1..Len(hit) |->
            Split(hit[i], "~")[1] \o <<"~">> \o EmptyStr \o <<"~">> \o Split(hit[i], "~")[3]]

RECURSIVE AppendCleared(_, _, _)
AppendCleared(hier, bad, k) ==
    IF k > Len(bad) THEN hier
    ELSE AppendCleared(hier \o ClearedLines(hier, bad[k]), bad, k + 1)

\* [ok: the value returned, h: the hierarchy the call leaves behind,
\*  raised: the call has raised and returned no value]
check_similar_mails_in_hierarchy(hier) ==
    LET r == BadAliases(hier)
    IN  IF r.raised THEN [ok |-> FALSE, h |-> hier, raised |-> TRUE]
        ELSE IF Len(r.bad) > 0
             THEN [ok |-> FALSE, h |-> AppendCleared(hier, r.bad, 1), raised |-> FALSE]
             ELSE [ok |-> TRUE, h |-> hier, raised |-> FALSE]

-----------------------------------------------------------------------------
(* The department list of the source *)

RootItem ==
    [current |-> ALL, prev |-> NONE_STR, level |-> 0, id360 |-> 1, prevId |-> 0,
     path |-> ALL, email |-> EmptyStr, externalId |-> HASH_ALL,
     prevExternalId |-> EmptyStr]

\* the entry of one line that is not a user line
DepItem(item) ==
    LET dep == Split(Split(item, "~")[1], ";")
        email == Split(item, "~")[2]
        one == Len(dep) = 1
        prev == IF one THEN ALL ELSE Join(SubSeq(dep, 1, Len(dep) - 1), ";")
        current == Last(dep)
    IN  [current |-> current, prev |-> prev, level |-> Len(dep), id360 |-> 0,
         prevId |-> IF one THEN 1 ELSE 0,
         path |-> IF current = ALL THEN EmptyStr
                  ELSE IF prev = ALL THEN current
                  ELSE prev \o <<";">> \o current,
         email |-> email, externalId |-> LineExternalId(item),
         prevExternalId |-> IF one THEN HASH_ALL ELSE LinePrevExternalId(item)]

prepare_deps_list_from_ad_hab(hier) ==
    LET nodes == SelectSeq(hier, LAMBDA item : ~IsUserLine(item))
    IN  <<RootItem>> \o [i \in 1..Len(nodes) |-> DepItem(nodes[i])]

-----------------------------------------------------------------------------
(* The deletion of the departments that are not in the source *)

RootElement == [id |-> 1, parentId |-> 0, path |-> ALL, mail |-> EmptyStr,
                externalId |-> HASH_ALL, prevExternalId |-> EmptyStr]

PathDepth(path) == Len(Split(path, ";"))

\* deps_from_y360 if the list came from a listing that cannot fail
DepsFromY360_ListingNeverEmpty(ds, fl) ==
    LET temp == generate_deps_list_from_api(ds, {})
    IN  Append(SortedBy(temp, [i \in 1..Len(temp) |-> PathDepth(temp[i].path)], FALSE),
               RootElement)

\* deps_from_y360: the loaded list, shallowest first, and then the root
DepsFromY360(ds, fl) ==
    LET temp == generate_deps_list_from_api(ds, fl)
    IN  Append(SortedBy(temp, [i \in 1..Len(temp) |-> PathDepth(temp[i].path)], FALSE),
               RootElement)

\* the test of a candidate without the option that keeps the departments of
\* an empty external identifier
IsDeleteCandidate_KeepIgnored(item360, created_deps, keep) ==
    IF Len(item360.externalId) = 0
    THEN item360.id # 1
    ELSE /\ item360.externalId \notin {created_deps[i].externalId : i \in 1..Len(created_deps)}
         /\ item360.id # 1

\* item360 is added to deps_to_delete
IsDeleteCandidate(item360, created_deps, keep) ==
    IF Len(item360.externalId) = 0
    THEN item360.id # 1 /\ ~keep
    ELSE /\ item360.externalId \notin {created_deps[i].externalId : i \in 1..Len(created_deps)}
         /\ item360.id # 1

DepsToDelete(d360, created_deps, keep) ==
    {d360[i].id : i \in {j \in 1..Len(d360) : IsDeleteCandidate(d360[j], created_deps, keep)}}

\* sorted_paths of one candidate: every listed department whose path starts
\* with the path of the candidate, longest path first
SortedPaths(d360, deps_id) ==
    LET deps_path == d360[FirstIdx(d360, LAMBDA item : item.id = deps_id)].path
        path_to_delete == SelectSeq(d360, LAMBDA line : StartsWith(line.path, deps_path))
    IN  SortedBy(path_to_delete,
                 [i \in 1..Len(path_to_delete) |-> Len(path_to_delete[i].path)], TRUE)

RECURSIVE RehomeUsers(_, _, _, _, _)
RehomeUsers(R, ctx, y360_users, deps_id, k) ==
    IF k > Len(y360_users) THEN R
    ELSE RehomeUsers(IF y360_users[k].departmentId = deps_id
                     THEN patch_user_by_api(R, ctx, y360_users[k].id, 1)
                     ELSE R,
                     ctx, y360_users, deps_id, k + 1)

\* acc: [R, deleted]; one item of sorted_paths
DeletePath(acc, ctx, d360, y360_users, item) ==
    LET deps_id == d360[FirstIdx(d360, LAMBDA dep : dep.path = item.path)].id
    IN  IF deps_id \in Range(acc.deleted) THEN acc
        ELSE [R |-> delete_department_by_api(
                        RehomeUsers(acc.R, ctx, y360_users, deps_id, 1), ctx, deps_id),
              deleted |-> Append(acc.deleted, deps_id)]

RECURSIVE DeletePaths(_, _, _, _, _, _)
DeletePaths(acc, ctx, d360, y360_users, sorted_paths, m) ==
    IF m > Len(sorted_paths) THEN acc
    ELSE DeletePaths(DeletePath(acc, ctx, d360, y360_users, sorted_paths[m]),
                     ctx, d360, y360_users, sorted_paths, m + 1)

RECURSIVE DeleteCandidates(_, _, _, _, _, _)
DeleteCandidates(acc, ctx, d360, y360_users, order, k) ==
    IF k > Len(order) THEN acc
    ELSE DeleteCandidates(
             DeletePaths(acc, ctx, d360, y360_users, SortedPaths(d360, order[k]), 1),
             ctx, d360, y360_users, order, k + 1)

\* order: list(deps_to_delete), the candidates in the order the set yields them
delete_deps_from_y360(R, ctx, keep, created_deps, y360_users, order) ==
    LET d360 == DepsFromY360(R.deps, ctx.fl)
    IN  DeleteCandidates([R |-> R, deleted |-> <<>>], ctx, d360, y360_users, order, 1).R

\* the sequences that list every element of the set S once
Orders(S) ==
    {o \in [1..Cardinality(S) -> S] : \A i, j \in 1..Cardinality(S) : i # j => o[i] # o[j]}

-----------------------------------------------------------------------------
(* The Tree Reconciler.  acc is [R, dl, api, chg, need, crashed, log]: the *)
(* remote state and operations, deps_list, api_prepared_list, the indices   *)
(* in deps_list of deps_to_change_parent, need_update_deps, whether an      *)
(* exception has ended the function, and for each node handled so far its   *)
(* external identifier and the branch taken ("create" or "exists").         *)

MailLabel(email) == Split(email, "@")[1]

MaxLevels(dl) ==
    LET depths == {PathDepth(dl[i].path) : i \in 1..Len(dl)}
    IN  CHOOSE m \in depths : \A k \in depths : k <= m

\* the levels taken from the deepest to the first
LevelIdxs_DeepestFirst(dl, level) ==
    SelectSeq([i \in 1..Len(dl) |-> i],
              LAMBDA i : dl[i].level = MaxLevels(dl) + 1 - level)

\* the indices in deps_list of deps_to_add at a level
LevelIdxs(dl, level) == SelectSeq([i \in 1..Len(dl) |-> i], LAMBDA i : dl[i].level = level)

\* the department is not in the list: it is created below its parent
CreateItem(acc, ctx, idx) ==
    LET item == acc.dl[idx]
        pidx == FirstIdx(acc.dl, LAMBDA e : e.externalId = item.prevExternalId)
    IN  IF pidx = 0 THEN [acc EXCEPT !.crashed = TRUE]
        ELSE LET parent == acc.dl[pidx]
                 department_info ==
                     [name |-> item.current, parentId |-> parent.id360,
                      externalId |-> item.externalId,
                      label |-> IF Len(item.email) > 0 THEN MailLabel(item.email)
                                ELSE EmptyStr]
             IN  [acc EXCEPT
                    !.dl[idx].prevId = parent.id360,
                    !.dl[idx].prevExternalId = parent.externalId,
                    !.R = create_department_by_api(acc.R, ctx, department_info),
                    !.need = TRUE,
                    !.log = Append(acc.log, [ext |-> item.externalId, how |-> "create"])]

\* the change of the name or else of the label of a department found in place
DataToChange(existing_in_360, item) ==
    IF Last(Split(existing_in_360.path, ";")) # item.current
    THEN [field |-> "name", value |-> item.current, parentId |-> 0]
    ELSE IF existing_in_360.mail # MailLabel(item.email)
    THEN [field |-> "label", value |-> MailLabel(item.email), parentId |-> 0]
    ELSE [field |-> "", value |-> EmptyStr, parentId |-> 0]

\* the branch as it would be if it moved the department at once, in the pass
\* over the levels
ExistingItem_MovedInPass(acc, ctx, idx, existing_in_360) ==
    LET item == acc.dl[idx]
        data_to_change == DataToChange(existing_in_360, item)
        pidx == FirstIdx(acc.api, LAMBDA e : e.externalId = item.prevExternalId)
    IN  IF existing_in_360.prevExternalId # item.prevExternalId
        THEN [acc EXCEPT !.R = patch_department_by_api(acc.R, ctx, existing_in_360.id,
                  [field |-> "parentId", value |-> EmptyStr,
                   parentId |-> IF pidx = 0 THEN 0 ELSE acc.api[pidx].id])]
        ELSE IF data_to_change.field # ""
        THEN [acc EXCEPT !.R = patch_department_by_api(acc.R, ctx, existing_in_360.id,
                                                       data_to_change)]
        ELSE acc

ExistingItem(acc, ctx, idx, existing_in_360) ==
    LET item == acc.dl[idx]
        data_to_change == DataToChange(existing_in_360, item)
    IN  IF existing_in_360.prevExternalId # item.prevExternalId
        THEN [acc EXCEPT !.chg = Append(acc.chg, idx)]
        ELSE IF data_to_change.field # ""
        THEN [acc EXCEPT !.R = patch_department_by_api(acc.R, ctx, existing_in_360.id,
                                                       data_to_change)]
        ELSE acc

ReconcileItem(acc, ctx, idx) ==
    LET item == acc.dl[idx]
        eidx == FirstIdx(acc.api, LAMBDA e : e.externalId = item.externalId)
    IN  IF acc.crashed THEN acc
        ELSE IF eidx = 0 THEN CreateItem(acc, ctx, idx)
        ELSE ExistingItem([acc EXCEPT !.log = Append(acc.log,
                               [ext |-> item.externalId, how |-> "exists"])],
                          ctx, idx, acc.api[eidx])

RECURSIVE ReconcileItems(_, _, _, _)
ReconcileItems(acc, ctx, idxs, k) ==
    IF k > Len(idxs) THEN acc
    ELSE ReconcileItems(ReconcileItem(acc, ctx, idxs[k]), ctx, idxs, k + 1)

\* item['360id'] = target['id'] for the first listed department with the
\* external identifier of the item
Resolve360Ids(dl, api, idxs) ==
    [i \in 1..Len(dl) |->
        LET t == FirstIdx(api, LAMBDA target : target.externalId = dl[i].externalId)
        IN  IF i \in Range(idxs) /\ t # 0 THEN [dl[i] EXCEPT !.id360 = api[t].id]
            ELSE dl[i]]

\* one level: the departments of the level, the refresh, the identifiers
ReconcileLevel(acc, ctx, level) ==
    LET deps_to_add == LevelIdxs(acc.dl, level)
        a1 == ReconcileItems([acc EXCEPT !.need = FALSE], ctx, deps_to_add, 1)
        api1 == IF a1.need THEN generate_deps_list_from_api(a1.R.deps, ctx.fl)
                ELSE a1.api
    IN  IF a1.crashed THEN a1
        ELSE [a1 EXCEPT !.api = api1, !.dl = Resolve360Ids(a1.dl, api1, deps_to_add)]

RECURSIVE ReconcileLevels(_, _, _, _)
ReconcileLevels(acc, ctx, level, max_levels) ==
    IF level > max_levels \/ acc.crashed THEN acc
    ELSE ReconcileLevels(ReconcileLevel(acc, ctx, level), ctx, level + 1, max_levels)

\* one department of deps_to_change_parent; deps_to_add is what the last
\* level left in that variable
ChangeParent(acc, ctx, idx, deps_to_add) ==
    LET item == acc.dl[idx]
        oidx == FirstIdx(deps_to_add, LAMBDA i : acc.dl[i].externalId = item.externalId)
        pidx == FirstIdx(acc.api, LAMBDA e : e.externalId = item.prevExternalId)
        didx == FirstIdx(acc.api, LAMBDA e : e.externalId = item.externalId)
    IN  IF acc.crashed \/ didx = 0 THEN acc
        ELSE IF acc.api[didx].prevExternalId = item.prevExternalId THEN acc
        ELSE IF ctx.dry
        THEN [acc EXCEPT !.R = patch_department_by_api(acc.R, ctx, acc.api[didx].id,
                  [field |-> "parentId", value |-> EmptyStr,
                   parentId |-> IF pidx = 0 THEN 0 ELSE acc.api[pidx].id])]
        ELSE IF oidx = 0 \/ pidx = 0 THEN [acc EXCEPT !.crashed = TRUE]
        ELSE [acc EXCEPT !.R = patch_department_by_api(acc.R, ctx,
                  acc.dl[deps_to_add[oidx]].id360,
                  [field |-> "parentId", value |-> EmptyStr,
                   parentId |-> acc.api[pidx].id])]

RECURSIVE ChangeParents(_, _, _, _)
ChangeParents(acc, ctx, deps_to_add, k) ==
    IF k > Len(acc.chg) THEN acc
    ELSE ChangeParents(ChangeParent(acc, ctx, acc.chg[k], deps_to_add),
                       ctx, deps_to_add, k + 1)

\* [R, dl, api, chg, need, crashed, log] when the function ends
create_dep_from_prepared_list(R, ctx, deps_list, max_levels) ==
    LET acc0 == [R |-> R, dl |-> deps_list,
                 api |-> generate_deps_list_from_api(R.deps, ctx.fl),
                 chg |-> <<>>, need |-> FALSE, crashed |-> FALSE, log |-> <<>>]
        a1 == ReconcileLevels(acc0, ctx, 1, max_levels)
    IN  ChangeParents(a1, ctx, LevelIdxs(a1.dl, max_levels), 1)

-----------------------------------------------------------------------------
(* The Membership Assigner *)

\* the alias of a mail of the source: the part before '@' when there is one
MailAlias(email) == IF Contains(email, "@") THEN Split(email, "@")[1] ELSE email

\* the user has the alias as nickname or among its aliases, lower-cased
UserHasAlias(user, alias) ==
    \/ Lower(user.nickname) = alias
    \/ \E i \in 1..Len(user.aliases) : Lower(user.aliases[i]) = alias

\* emails_ad of one department: the mails of the user lines with its path
EmailsAd(ad_users, path) ==
    LET mine == SelectSeq(ad_users, LAMBDA user : Split(user, "|")[1] = path)
    IN  [i \in 1..Len(mine) |-> Lower(Split(Split(mine[i], "|")[2], ";")[2])]

\* what one department adds to add_to_360_aliases
DepAddAliases(dep, y360_users, ad_users) ==
    LET users_360 == SelectSeq(y360_users, LAMBDA u : u.departmentId = dep.id360)
        emails_ad == EmailsAd(ad_users, dep.path)
        missing == SelectSeq(emails_ad, LAMBDA email :
                       \A i \in 1..Len(users_360) : ~UserHasAlias(users_360[i], MailAlias(email)))
    IN  [i \in 1..Len(missing) |->
            [alias |-> MailAlias(missing[i]), departmentId |-> dep.id360, path |-> dep.path]]

\* what one department adds to delete_candidates_from_360
DepDeleteCandidates(dep, y360_users, ad_users) ==
    LET users_360 == SelectSeq(y360_users, LAMBDA u : u.departmentId = dep.id360)
        emails_ad == EmailsAd(ad_users, dep.path)
    IN  SelectSeq(users_360, LAMBDA user :
            \A i \in 1..Len(emails_ad) : ~UserHasAlias(user, MailAlias(emails_ad[i])))

RECURSIVE AddToAliases(_, _, _, _)
AddToAliases(created_deps, y360_users, ad_users, k) ==
    IF k > Len(created_deps) THEN <<>>
    ELSE (IF created_deps[k].id360 # 1
          THEN DepAddAliases(created_deps[k], y360_users, ad_users) ELSE <<>>)
         \o AddToAliases(created_deps, y360_users, ad_users, k + 1)

\* the candidates as they would be if the users of the root were looked at too
RECURSIVE DeleteCandidatesFrom360_RootIncluded(_, _, _, _)
DeleteCandidatesFrom360_RootIncluded(created_deps, y360_users, ad_users, k) ==
    IF k > Len(created_deps) THEN <<>>
    ELSE DepDeleteCandidates(created_deps[k], y360_users, ad_users)
         \o DeleteCandidatesFrom360_RootIncluded(created_deps, y360_users, ad_users, k + 1)

RECURSIVE DeleteCandidatesFrom360(_, _, _, _)
DeleteCandidatesFrom360(created_deps, y360_users, ad_users, k) ==
    IF k > Len(created_deps) THEN <<>>
    ELSE (IF created_deps[k].id360 # 1
          THEN DepDeleteCandidates(created_deps[k], y360_users, ad_users) ELSE <<>>)
         \o DeleteCandidatesFrom360(created_deps, y360_users, ad_users, k + 1)

\* add_to_360 as it would be if a user were found by its nickname only
AddTo360_NicknameOnly(add_to_360_aliases, y360_users) ==
    LET hit == SelectSeq(add_to_360_aliases, LAMBDA data :
                   \E i \in 1..Len(y360_users) :
                       Lower(y360_users[i].nickname) = Lower(data.alias))
    IN  [k \in 1..Len(hit) |->
            [user |-> y360_users[FirstIdx(y360_users,
                          LAMBDA u : Lower(u.nickname) = Lower(hit[k].alias))],
             departmentId |-> hit[k].departmentId, path |-> hit[k].path]]

\* add_to_360: for each alias the first user of the listing that has it
AddTo360(add_to_360_aliases, y360_users) ==
    LET hit == SelectSeq(add_to_360_aliases, LAMBDA data :
                   \E i \in 1..Len(y360_users) : UserHasAlias(y360_users[i], Lower(data.alias)))
    IN  [k \in 1..Len(hit) |->
            [user |-> y360_users[FirstIdx(y360_users,
                          LAMBDA u : UserHasAlias(u, Lower(hit[k].alias)))],
             departmentId |-> hit[k].departmentId, path |-> hit[k].path]]

\* delete_from_360: the candidates that no entry of add_to_360 names
DeleteFrom360(delete_candidates_from_360, add_to_360) ==
    SelectSeq(delete_candidates_from_360, LAMBDA user :
        \A i \in 1..Len(add_to_360) : add_to_360[i].user.id # user.id)

RECURSIVE PatchToRoot(_, _, _, _)
PatchToRoot(R, ctx, delete_from_360, k) ==
    IF k > Len(delete_from_360) THEN R
    ELSE PatchToRoot(patch_user_by_api(R, ctx, delete_from_360[k].id, 1),
                     ctx, delete_from_360, k + 1)

RECURSIVE PatchToDeps(_, _, _, _)
PatchToDeps(R, ctx, add_to_360, k) ==
    IF k > Len(add_to_360) THEN R
    ELSE PatchToDeps(patch_user_by_api(R, ctx, add_to_360[k].user.id,
                                       add_to_360[k].departmentId),
                     ctx, add_to_360, k + 1)

assign_users_to_deps(R, ctx, created_deps, ad_users, y360_users) ==
    LET add_to_360_aliases == AddToAliases(created_deps, y360_users, ad_users, 1)
        delete_candidates_from_360 ==
            DeleteCandidatesFrom360(created_deps, y360_users, ad_users, 1)
        add_to_360 == AddTo360(add_to_360_aliases, y360_users)
        delete_from_360 == DeleteFrom360(delete_candidates_from_360, add_to_360)
    IN  PatchToDeps(PatchToRoot(R, ctx, delete_from_360, 1), ctx, add_to_360, 1)

-----------------------------------------------------------------------------
(* The user listing and its cache *)

ALL_USERS_REFRESH_IN_MINUTES == 15

\* the test that ignores the force flag
Refetches_ForceIgnored(cache, age, force) ==
    Len(cache) = 0 \/ age > ALL_USERS_REFRESH_IN_MINUTES * 60

\* the test that lets the API be called: the cache is empty, the caller forces
\* it, or the cache is older, in seconds, than the refresh period
Refetches(cache, age, force) ==
    Len(cache) = 0 \/ force \/ age > ALL_USERS_REFRESH_IN_MINUTES * 60

\* the list returned, which is also what settings.all_users holds afterwards;
\* age is the time in seconds since settings.all_users_get_timestamp
get_all_api360_users(cache, age, us, fl, force) ==
    IF Refetches(cache, age, force) THEN get_all_api360_users_from_api(us, fl)
    ELSE cache

\* patch_user_by_api to the root on each user of a list who is in another
\* department, in the order of the list
RECURSIVE ClearEach(_, _, _, _)
ClearEach(R, ctx, us, k) ==
    IF k > Len(us) THEN R
    ELSE ClearEach(IF us[k].departmentId # 1
                   THEN patch_user_by_api(R, ctx, us[k].id, 1) ELSE R,
                   ctx, us, k + 1)

\* clear_dep_info_for_users: every user of the list get_all_api360_users
\* returns, in a dry run as well.  No statement of the program calls it: it
\* is no step of the main program
clear_dep_info_for_users(R, ctx, cache, age) ==
    LET listed == get_all_api360_users(cache, age, R.users, ctx.fl, FALSE)
    IN  ClearEach(R, [ctx EXCEPT !.dry = FALSE], listed, 1)

\* the ages of the cache at a call: at the refresh period and just over it
Ages == {ALL_USERS_REFRESH_IN_MINUTES * 60, ALL_USERS_REFRESH_IN_MINUTES * 60 + 1}

-----------------------------------------------------------------------------
(* The inputs *)

MaxDeps == 2
MaxGroups == 2
MaxRuns == 2

Str(c) == <<c>>
MailOf(c) == <<c, "@", "d">>

\* the k-th group of the source: A (x), B (y), D (z), each a member of the
\* one before it
SrcGroup(k, mail) ==
    [dn |-> k,
     cn |-> Str(CASE k = 1 -> "A" [] k = 2 -> "B" [] OTHER -> "D"),
     name |-> Str(CASE k = 1 -> "A" [] k = 2 -> "B" [] OTHER -> "D"),
     mail |-> mail,
     externalId |-> Str(CASE k = 1 -> "x" [] k = 2 -> "y" [] OTHER -> "z"),
     sam |-> <<"g", CASE k = 1 -> "x" [] k = 2 -> "y" [] OTHER -> "z">>,
     memberOf |-> IF k = 1 THEN {} ELSE {k - 1}]

\* a chain of n groups below the root group, and one person u@d, a member of
\* the deepest group
SrcLdap(n, mail) ==
    [groups |-> [k \in 1..n |-> SrcGroup(k, IF k = 1 THEN mail ELSE EmptyStr)],
     persons |-> <<[mail |-> MailOf("u"), displayName |-> Str("u"), cn |-> Str("u"),
                    ex14 |-> SrcGroup(n, EmptyStr).sam]>>,
     root |-> 1]

\* the source directories: the root group alone, with or without a mail, and
\* the chains of up to MaxGroups groups
InitLdaps ==
    {SrcLdap(1, ml) : ml \in {EmptyStr, MailOf("m")}}
        \cup {SrcLdap(n, EmptyStr) : n \in 2..MaxGroups}

\* the remote departments: the root and up to MaxDeps departments, each below
\* the root or an earlier one, and each of one of these kinds: the root group
\* under its name or under another, the second group, a department of an
\* identifier the source does not have, a department without an identifier
DepKinds ==
    {[name |-> Str("A"), externalId |-> Str("x")],
     [name |-> Str("B"), externalId |-> Str("x")],
     [name |-> Str("B"), externalId |-> Str("y")],
     [name |-> Str("C"), externalId |-> Str("w")],
     [name |-> Str("A"), externalId |-> EmptyStr]}

DepChoices(i) ==
    {[id |-> i, parentId |-> p, name |-> k.name, label |-> EmptyStr,
      externalId |-> k.externalId] : p \in 1..(i - 1), k \in DepKinds}

RECURSIVE DepSeqs(_)
DepSeqs(n) ==
    IF n = 0 THEN {<<RootDep>>}
    ELSE {Append(ds, d) : ds \in DepSeqs(n - 1), d \in DepChoices(n + 1)}

InitDeps == UNION {DepSeqs(n) : n \in 0..MaxDeps}

\* the remote users: none, or the user u: a person in any department, or a
\* robot in the last one
InitUsers(ds) ==
    LET u(d, rb) == [id |-> 1, nickname |-> Str("u"), aliases |-> <<>>,
                     departmentId |-> d, isRobot |-> rb]
    IN  {<<>>} \cup {<<u(d, FALSE)>> : d \in DepIds(ds)}
               \cup {<<u(ds[Len(ds)].id, TRUE)>>}

\* the service answers every call, or fails one of the two listings
FailModes == {{}, {"GET_departments"}, {"GET_users"}}

-----------------------------------------------------------------------------
(* The main program *)

\* no remote call is followed attempt by attempt
NoCall == [fn |-> "none"]

Ctx(phase) == [fl |-> failing, dry |-> dry_run, run |-> run, phase |-> phase]

\* delete_deps_from_y360 as the main program calls it: [R, all_users]
DeletePhase(R, ctx, keep, created_deps, cache, order) ==
    LET y360_users == get_all_api360_users(cache, 0, R.users, ctx.fl, TRUE)
    IN  [R |-> delete_deps_from_y360(R, ctx, keep, created_deps, y360_users, order),
         all_users |-> y360_users]

\* the end of the main program, from the check of the user listing on:
\* [R, all_users, pc]; age is the age of the cache at that check (a forced call
\* does not read the age, written 0)
AssignPhase(R, ctx, cache, age, hier, created_deps) ==
    LET cached == get_all_api360_users(cache, age, R.users, ctx.fl, FALSE)
        ad_users == SelectSeq(hier, IsUserLine)
        y360_users == get_all_api360_users(cached, 0, R.users, ctx.fl, TRUE)
        R1 == assign_users_to_deps(R, ctx, created_deps, ad_users, y360_users)
    IN  IF Len(cached) = 0 \/ Len(ad_users) = 0
        THEN [R |-> R, all_users |-> cached, pc |-> "exit"]
        ELSE [R |-> R1, pc |-> "done",
              all_users |-> get_all_api360_users(y360_users, 0, R1.users, ctx.fl, TRUE)]

Init ==
    /\ ldap \in InitLdaps
    /\ deps \in InitDeps
    /\ users \in InitUsers(deps)
    /\ failing \in FailModes
    /\ dry_run \in BOOLEAN
    /\ keep_empty \in BOOLEAN
    /\ all_users = <<>>
    /\ hierarchy = <<>>
    /\ final_list = <<>>
    /\ deps_to_delete = {}
    /\ rec_log = <<>>
    /\ ops = <<>>
    /\ run = 1
    /\ start_deps = deps
    /\ start_users = users
    /\ pc = "load"
    /\ load_ad_data_from_file = FALSE
    /\ ad_data_file = NoFile
    /\ call = NoCall

\* hierarchy = load_heirarchy_from_file(settings.ad_data_file) or
\* build_group_hierarchy(settings), which saves the hierarchy it returns to
\* settings.ad_data_file, and the exit on an empty one.  When the loader
\* raises, the assignment never happens and hierarchy is left as it was
Load ==
    /\ pc = "load"
    /\ \E r \in {IF load_ad_data_from_file
                 THEN load_heirarchy_from_file(ad_data_file)
                 ELSE build_group_hierarchy(ldap)} :
          /\ hierarchy' = IF r.raised THEN hierarchy ELSE r.h
          /\ ad_data_file' = IF ~load_ad_data_from_file /\ r.saved
                             THEN r.h ELSE ad_data_file
          /\ pc' = IF r.raised THEN "crashed"
                   ELSE IF Len(r.h) = 0 THEN "exit" ELSE "validate"
    /\ UNCHANGED <<ldap, deps, users, failing, dry_run, keep_empty, all_users,
                   final_list, deps_to_delete, rec_log, ops, run, start_deps,
                   start_users, load_ad_data_from_file, call>>

\* the three checks of the hierarchy
Validate ==
    /\ pc = "validate"
    /\ IF ~check_similar_groups_in_hierarchy(hierarchy)
             \/ ~check_empty_external_id(hierarchy)
       THEN pc' = "exit" /\ UNCHANGED hierarchy
       ELSE \E r \in {check_similar_mails_in_hierarchy(hierarchy)} :
                /\ hierarchy' = r.h
                /\ pc' = IF r.raised THEN "crashed" ELSE "prepare"
    /\ UNCHANGED <<ldap, deps, users, failing, dry_run, keep_empty, all_users,
                   final_list, deps_to_delete, rec_log, ops, run, start_deps,
                   start_users,
                   load_ad_data_from_file, ad_data_file, call>>

\* generate_api360_hierarchy (the start state) and prepare_deps_list_from_ad_hab
Prepare ==
    /\ pc = "prepare"
    /\ all_users' = get_all_api360_users(all_users, 0, users, failing, TRUE)
    /\ final_list' = prepare_deps_list_from_ad_hab(hierarchy)
    /\ pc' = "delete"
    /\ UNCHANGED <<ldap, deps, users, failing, dry_run, keep_empty, hierarchy,
                   deps_to_delete, rec_log, ops, run, start_deps, start_users,
                   load_ad_data_from_file, ad_data_file, call>>

Delete ==
    /\ pc = "delete"
    /\ \E cands \in {DepsToDelete(DepsFromY360(deps, failing), final_list, keep_empty)} :
       \E order \in Orders(cands) :
       \E d \in {DeletePhase(Remote(deps, users, ops), Ctx("delete"), keep_empty,
                            final_list, all_users, order)} :
          /\ deps_to_delete' = cands
          /\ deps' = d.R.deps
          /\ users' = d.R.users
          /\ ops' = d.R.ops
          /\ all_users' = d.all_users
    /\ pc' = "reconcile"
    /\ UNCHANGED <<ldap, failing, dry_run, keep_empty, hierarchy, final_list, rec_log,
                   run, start_deps, start_users,
                   load_ad_data_from_file, ad_data_file, call>>

Reconcile ==
    /\ pc = "reconcile"
    /\ \E acc \in {create_dep_from_prepared_list(Remote(deps, users, ops), Ctx("reconcile"),
                                                  final_list, MaxLevels(final_list))} :
          /\ deps' = acc.R.deps
          /\ users' = acc.R.users
          /\ ops' = acc.R.ops
          /\ final_list' = acc.dl
          /\ rec_log' = acc.log
          /\ pc' = IF acc.crashed THEN "crashed" ELSE "assign"
    /\ UNCHANGED <<ldap, failing, dry_run, keep_empty, all_users, hierarchy,
                   deps_to_delete, run, start_deps, start_users,
                   load_ad_data_from_file, ad_data_file, call>>

\* the two exits before the assignment, assign_users_to_deps, and
\* generate_api360_hierarchy (the end state)
Assign ==
    /\ pc = "assign"
    /\ \E age \in Ages :
       \E a \in {AssignPhase(Remote(deps, users, ops), Ctx("assign"), all_users, age,
                              hierarchy, final_list)} :
          /\ deps' = a.R.deps
          /\ users' = a.R.users
          /\ ops' = a.R.ops
          /\ all_users' = a.all_users
          /\ pc' = a.pc
    /\ UNCHANGED <<ldap, failing, dry_run, keep_empty, hierarchy, final_list,
                   deps_to_delete, rec_log, run, start_deps, start_users,
                   load_ad_data_from_file, ad_data_file, call>>

Next == Load \/ Validate \/ Prepare \/ Delete \/ Reconcile \/ Assign

Spec == Init /\ [][Next]_vars

\* the program is started again, on the same source and on the remote state
\* the run before has left
NextRun ==
    /\ pc = "done"
    /\ run < MaxRuns
    /\ run' = run + 1
    /\ all_users' = <<>>
    /\ hierarchy' = <<>>
    /\ final_list' = <<>>
    /\ deps_to_delete' = {}
    /\ rec_log' = <<>>
    /\ start_deps' = deps
    /\ start_users' = users
    /\ pc' = "load"
    /\ UNCHANGED <<ldap, deps, users, failing, dry_run, keep_empty, ops,
                   load_ad_data_from_file, ad_data_file, call>>

NextRuns == Next \/ NextRun

SpecRuns == Init /\ [][NextRuns]_vars

-----------------------------------------------------------------------------
(* The runs on a hierarchy read from a file (LOAD_AD_DATA_FROM_FILE).  The  *)
(* files hold the lines the encoder writes: a node A of identifier x, with  *)
(* or without the mail u@d and a member, and below it, or not, a node B     *)
(* whose identifier is y, x again or empty.                                 *)

\* the paths of the two nodes
PathA == Str("A")
PathAB == <<"A", ";", "B">>

\* the line of a member of the node at path, with the mail alias@d
MemberLine(path, name, alias) ==
    UserLine(path, [displayName |-> Str(name), mail |-> MailOf(alias)])

FileMails == {EmptyStr, MailOf("u")}

\* no member, or one with the mail u@d or v@d
MemberLines(path, name) ==
    {<<>>} \cup {<<MemberLine(path, name, a)>> : a \in {"u", "v"}}

FileTops ==
    {<<GroupLine(PathA, ml, HASH_ALL, Str("x"))>> \o mb :
        ml \in FileMails, mb \in MemberLines(PathA, "p")}

FileSubs ==
    {<<>>} \cup
    {<<GroupLine(PathAB, ml, Str("x"), e)>> \o mb :
        ml \in FileMails, e \in {Str("y"), Str("x"), EmptyStr},
        mb \in MemberLines(PathAB, "q")}

InitFiles == {top \o sub : top \in FileTops, sub \in FileSubs}

\* the remote departments: the root alone, with A, with A and B below it,
\* or with A and a department that has no identifier
FileDep(i, p, name, ext) ==
    [id |-> i, parentId |-> p, name |-> Str(name), label |-> EmptyStr,
     externalId |-> ext]

InitFileDeps ==
    {<<RootDep>>,
     <<RootDep, FileDep(2, 1, "A", Str("x"))>>,
     <<RootDep, FileDep(2, 1, "A", Str("x")), FileDep(3, 2, "B", Str("y"))>>,
     <<RootDep, FileDep(2, 1, "A", Str("x")), FileDep(3, 1, "E", EmptyStr)>>}

\* the remote users: u, who also has the alias v, and z, each in any department
FileUser(i, nick, al, d) ==
    [id |-> i, nickname |-> Str(nick), aliases |-> al, departmentId |-> d,
     isRobot |-> FALSE]

InitFileUsers(ds) ==
    {<<>>}
        \cup {<<FileUser(1, "u", <<Str("v")>>, d)>> : d \in DepIds(ds)}
        \cup {<<FileUser(1, "z", <<>>, d)>> : d \in DepIds(ds)}
        \cup {<<FileUser(1, "u", <<Str("v")>>, d), FileUser(2, "z", <<>>, e)>> :
                 d \in DepIds(ds), e \in DepIds(ds)}

InitFile ==
    /\ ldap = SrcLdap(1, EmptyStr)
    /\ deps \in InitFileDeps
    /\ users \in InitFileUsers(deps)
    /\ failing = {}
    /\ dry_run \in BOOLEAN
    /\ keep_empty \in BOOLEAN
    /\ all_users = <<>>
    /\ hierarchy = <<>>
    /\ final_list = <<>>
    /\ deps_to_delete = {}
    /\ rec_log = <<>>
    /\ ops = <<>>
    /\ run = 1
    /\ start_deps = deps
    /\ start_users = users
    /\ pc = "load"
    /\ load_ad_data_from_file = TRUE
    /\ ad_data_file \in InitFiles
    /\ call = NoCall

SpecFile == InitFile /\ [][Next]_vars

-----------------------------------------------------------------------------
(* One remote call, request by request.  The service answers a request with *)
(* the status OK ("ok"), with another status ("error"), or the request      *)
(* raises requests.exceptions.RequestException ("exception").  call holds   *)
(* the local variables of the function and log, the answers so far.  A      *)
(* listing is served in pages of PerPage items.                             *)

MAX_RETRIES == 3
RETRIES_DELAY_SEC == 2
PerPage == 1
MaxAttempts == 5

\* create_user_by_api is in the source and no statement calls it
Fns == {"create_department_by_api", "patch_department_by_api", "patch_user_by_api",
        "delete_department_by_api", "get_all_api360_departments",
        "get_all_api360_users_from_api", "create_user_by_api"}

IsListing(fn) == fn \in {"get_all_api360_departments", "get_all_api360_users_from_api"}

\* the functions whose except clause is inside the loop of the retries
CatchesInLoop(fn) ==
    fn \in {"patch_department_by_api", "patch_user_by_api", "create_user_by_api"}

\* the pages the service cuts a list into; an empty list is one empty page
Pages(seq) ==
    LET n == Len(seq)
        np == IF n = 0 THEN 1 ELSE (n + PerPage - 1) \div PerPage
    IN  [pg \in 1..np |->
            SubSeq(seq, (pg - 1) * PerPage + 1, IF pg * PerPage < n THEN pg * PerPage ELSE n)]

\* the items of a page the function appends to its list
PageItems(fn, page) ==
    IF fn = "get_all_api360_users_from_api"
    THEN SelectSeq(page, LAMBDA user : ~user.isRobot)
    ELSE page

\* what a listing would return if it kept the pages read before a failure
ListingResult_PagesRead(items, has_errors) == items

\* what a listing returns
ListingResult(items, has_errors) == IF has_errors THEN <<>> ELSE items

\* the arguments the functions are called with: a department N to create
\* below the root or below department 2, a name or a parent for department 2
\* or 3, user 1 to move to the root or to department 2, department 2 or 3 to
\* delete, a user w to create in the root; the listings take none
CallArgs(fn) ==
    CASE fn = "create_department_by_api" ->
           {[name |-> Str("N"), parentId |-> p, externalId |-> Str("n"), label |-> EmptyStr] :
               p \in {1, 2}}
      [] fn = "patch_department_by_api" ->
           {[id |-> 2, data |-> [field |-> "name", value |-> Str("N"), parentId |-> 0]],
            [id |-> 3, data |-> [field |-> "parentId", value |-> EmptyStr, parentId |-> 1]]}
      [] fn = "patch_user_by_api" -> {[id |-> 1, dep |-> d] : d \in {1, 2}}
      [] fn = "delete_department_by_api" -> {[id |-> d] : d \in {2, 3}}
      [] fn = "create_user_by_api" -> {[nickname |-> Str("w"), departmentId |-> 1]}
      [] OTHER -> {[id |-> 0]}

\* the service after it has answered OK to the request of the call, as
\* [deps, users]: the request is carried out; one the service cannot carry
\* out, and a listing, leave it as it was
Served(c, ds, us) ==
    LET a == c.arg
        same == [deps |-> ds, users |-> us]
    IN  CASE c.fn = "create_department_by_api" ->
               IF ServiceCreateOk(ds, a)
               THEN [deps |-> ServiceCreate(ds, a), users |-> us] ELSE same
          [] c.fn = "patch_department_by_api" ->
               IF ServicePatchDepOk(ds, a.id, a.data)
               THEN [deps |-> ServicePatchDep(ds, a.id, a.data), users |-> us] ELSE same
          [] c.fn = "patch_user_by_api" ->
               IF ServicePatchUserOk(ds, us, a.id, a.dep)
               THEN [deps |-> ds, users |-> ServicePatchUser(us, a.id, a.dep)] ELSE same
          [] c.fn = "delete_department_by_api" ->
               IF ServiceDeleteOk(ds, us, a.id)
               THEN [deps |-> ServiceDelete(ds, a.id), users |-> us] ELSE same
          [] c.fn = "create_user_by_api" ->
               IF ServiceCreateUserOk(ds, us, a)
               THEN [deps |-> ds, users |-> ServiceCreateUser(us, a)] ELSE same
          [] OTHER -> same

\* the function is entered
StartCall(fn, arg, ds, us) ==
    [fn |-> fn, arg |-> arg,
     pages |-> IF fn = "get_all_api360_departments" THEN Pages(ds)
               ELSE IF fn = "get_all_api360_users_from_api" THEN Pages(us)
               ELSE <<>>,
     status |-> "running", retries |-> 1, current_page |-> 1, last_page |-> 1,
     items |-> <<>>, has_errors |-> FALSE, sleeps |-> <<>>, log |-> <<>>,
     result |-> IF IsListing(fn) THEN <<>> ELSE FALSE]

\* the function returns after a failure
Failed(c) ==
    [c EXCEPT !.status = "returned", !.has_errors = TRUE,
              !.result = IF IsListing(c.fn) THEN ListingResult(c.items, TRUE) ELSE FALSE]

\* the request is answered with the status OK
ResponseOk(c) ==
    LET c1 == [c EXCEPT !.log = Append(@, "ok")]
        items == c.items \o PageItems(c.fn, c.pages[c.current_page])
        last == Len(c.pages)
    IN  IF ~IsListing(c.fn) THEN [c1 EXCEPT !.status = "returned", !.result = TRUE]
        ELSE IF c.current_page + 1 <= last
        THEN [c1 EXCEPT !.items = items, !.current_page = @ + 1, !.last_page = last,
                        !.retries = 1]
        ELSE [c1 EXCEPT !.items = items, !.current_page = @ + 1, !.last_page = last,
                        !.status = "returned",
                        !.result = ListingResult(items, c.has_errors)]

\* the retry step with the same delay before every retry
ResponseError_FlatDelay(c) ==
    LET c1 == [c EXCEPT !.log = Append(@, "error")]
    IN  IF c.retries < MAX_RETRIES
        THEN [c1 EXCEPT !.sleeps = Append(@, RETRIES_DELAY_SEC),
                        !.retries = @ + 1]
        ELSE Failed(c1)

\* the request is answered with another status
ResponseError(c) ==
    LET c1 == [c EXCEPT !.log = Append(@, "error")]
    IN  IF c.retries < MAX_RETRIES
        THEN [c1 EXCEPT !.sleeps = Append(@, RETRIES_DELAY_SEC * c.retries),
                        !.retries = @ + 1]
        ELSE Failed(c1)

\* the request raises
ResponseException(c) ==
    LET c1 == [c EXCEPT !.log = Append(@, "exception")]
    IN  IF CatchesInLoop(c.fn) THEN c1 ELSE Failed(c1)

InitCalls ==
    /\ ldap = SrcLdap(1, EmptyStr)
    /\ deps \in InitFileDeps
    /\ users \in InitFileUsers(deps) \cup InitUsers(deps)
    /\ failing = {}
    /\ dry_run = FALSE
    /\ keep_empty = FALSE
    /\ all_users = <<>>
    /\ hierarchy = <<>>
    /\ final_list = <<>>
    /\ deps_to_delete = {}
    /\ rec_log = <<>>
    /\ ops = <<>>
    /\ run = 1
    /\ start_deps = deps
    /\ start_users = users
    /\ pc = "call"
    /\ load_ad_data_from_file = FALSE
    /\ ad_data_file = NoFile
    /\ \E fn \in Fns : \E arg \in CallArgs(fn) : call = StartCall(fn, arg, deps, users)

Unrequested == <<ldap, deps, users, failing, dry_run, keep_empty, all_users, hierarchy,
                 final_list, deps_to_delete, rec_log, ops, run, start_deps, start_users,
                 pc, load_ad_data_from_file, ad_data_file>>

\* the request is answered OK: the function goes on, and the service has
\* carried the request out
RequestOk ==
    /\ pc = "call"
    /\ call.status = "running"
    /\ call' = ResponseOk(call)
    /\ \E s \in {Served(call, deps, users)} : deps' = s.deps /\ users' = s.users
    /\ UNCHANGED <<ldap, failing, dry_run, keep_empty, all_users, hierarchy, final_list,
                   deps_to_delete, rec_log, ops, run, start_deps, start_users, pc,
                   load_ad_data_from_file, ad_data_file>>

RequestError ==
    /\ pc = "call"
    /\ call.status = "running"
    /\ call' = ResponseError(call)
    /\ UNCHANGED Unrequested

\* the requests of a call that never ends are followed up to MaxAttempts
RequestException ==
    /\ pc = "call"
    /\ call.status = "running"
    /\ CatchesInLoop(call.fn) => Len(call.log) < MaxAttempts
    /\ call' = ResponseException(call)
    /\ UNCHANGED Unrequested

NextCalls == RequestOk \/ RequestError \/ RequestException

SpecCalls == InitCalls /\ [][NextCalls]_vars

-----------------------------------------------------------------------------
(* The functions no statement of the program calls, each called once, after *)
(* get_settings, on a remote state and with the service answering every     *)
(* call or failing one endpoint.                                            *)

InitTools ==
    /\ ldap = SrcLdap(1, EmptyStr)
    /\ deps \in InitFileDeps
    /\ users \in InitFileUsers(deps) \cup InitUsers(deps)
    /\ failing \in FailModes \cup {{"DELETE_department"}, {"PATCH_user"}}
    /\ dry_run \in BOOLEAN
    /\ keep_empty = FALSE
    /\ all_users = <<>>
    /\ hierarchy = <<>>
    /\ final_list = <<>>
    /\ deps_to_delete = {}
    /\ rec_log = <<>>
    /\ ops = <<>>
    /\ run = 1
    /\ start_deps = deps
    /\ start_users = users
    /\ pc = "tool"
    /\ load_ad_data_from_file = FALSE
    /\ ad_data_file = NoFile
    /\ call = NoCall

DeleteAllDepartments ==
    /\ pc = "tool"
    /\ \E R \in {delete_all_departments(Remote(deps, users, ops),
                                          Ctx("delete_all_departments"))} :
          deps' = R.deps /\ users' = R.users /\ ops' = R.ops
    /\ pc' = "done"
    /\ UNCHANGED <<ldap, failing, dry_run, keep_empty, all_users, hierarchy, final_list,
                   deps_to_delete, rec_log, run, start_deps, start_users,
                   load_ad_data_from_file, ad_data_file, call>>

DeleteDepsWithNoUsers ==
    /\ pc = "tool"
    /\ \E R \in {delete_deps_with_no_users(Remote(deps, users, ops),
                                             Ctx("delete_deps_with_no_users"))} :
          deps' = R.deps /\ users' = R.users /\ ops' = R.ops
    /\ pc' = "done"
    /\ UNCHANGED <<ldap, failing, dry_run, keep_empty, all_users, hierarchy, final_list,
                   deps_to_delete, rec_log, run, start_deps, start_users,
                   load_ad_data_from_file, ad_data_file, call>>

\* the list read is also what settings.all_users holds afterwards
ClearDepInfoForUsers ==
    /\ pc = "tool"
    /\ \E age \in Ages :
       \E R \in {clear_dep_info_for_users(Remote(deps, users, ops),
                                            Ctx("clear_dep_info_for_users"),
                                            all_users, age)} :
          /\ deps' = R.deps /\ users' = R.users /\ ops' = R.ops
          /\ all_users' = get_all_api360_users(all_users, age, users, failing, FALSE)
    /\ pc' = "done"
    /\ UNCHANGED <<ldap, failing, dry_run, keep_empty, hierarchy, final_list,
                   deps_to_delete, rec_log, run, start_deps, start_users,
                   load_ad_data_from_file, ad_data_file, call>>

NextTools == DeleteAllDepartments \/ DeleteDepsWithNoUsers \/ ClearDepInfoForUsers

SpecTools == InitTools /\ [][NextTools]_vars

-----------------------------------------------------------------------------
(* What the properties below read *)

\* the operations of the run in progress, as indices of ops
RunOps == {i \in 1..Len(ops) : ops[i].run = run}

\* delete_deps_from_y360 has returned in the run in progress
DeleteDone ==
    \/ pc \in {"reconcile", "assign", "done"}
    \/ pc \in {"exit", "crashed"} /\ Len(final_list) > 0

\* the external identifiers of the groups of the source
SourceIds ==
    {LineExternalId(hierarchy[i]) : i \in {j \in 1..Len(hierarchy) : IsGroupLine(hierarchy[j])}}

\* what the Remote Tree Loader returned to delete_deps_from_y360 in this run
LoadedAtStart == generate_deps_list_from_api(start_deps, failing)

\* the parent, in the source, of the node of an external identifier
ParentOf(ext) ==
    final_list[FirstIdx(final_list, LAMBDA e : e.externalId = ext)].prevExternalId

\* the change an operation stands for: what is done, and to what
PlanOf(os) ==
    [i \in 1..Len(os) |-> [kind |-> os[i].kind, phase |-> os[i].phase, id |-> os[i].id,
                           ext |-> os[i].ext, field |-> os[i].field]]

\* the operations of the main program from delete_deps_from_y360 to its end,
\* from the state at hand, with the candidates taken in an order
RunFromDelete(dry, order) ==
    LET ctx(phase) == [fl |-> failing, dry |-> dry, run |-> run, phase |-> phase]
        d == DeletePhase(Remote(deps, users, <<>>), ctx("delete"), keep_empty,
                         final_list, all_users, order)
        acc == create_dep_from_prepared_list(d.R, ctx("reconcile"), final_list,
                                             MaxLevels(final_list))
        a == AssignPhase(acc.R, ctx("assign"), d.all_users, 0, hierarchy, acc.dl)
    IN  IF acc.crashed THEN acc.R.ops ELSE a.R.ops

-----------------------------------------------------------------------------
(* The properties *)

\* C1: after a complete run that is not a dry run and in which every call to
\* the service succeeded, a second run on the same source and on the remote
\* state the first one left computes no operation in the Tree Reconciler and
\* in the Membership Assigner.
C1_SecondRunChangesNothing ==
    (/\ run = 2
     /\ ~dry_run
     /\ failing = {}
     /\ \A i \in 1..Len(ops) : ops[i].run = 1 => ops[i].ok)
    => \A i \in RunOps : ops[i].phase \notin {"reconcile", "assign"}

\* C2: from one source and one remote state, the deletion, the reconciliation
\* and the assignment compute the same sequence of changes in a dry run as in
\* a run that applies them, whatever the order of the candidates.
C2_DryRunComputesSameChanges ==
    pc = "delete" =>
        \A order \in Orders(DepsToDelete(DepsFromY360(deps, failing), final_list, keep_empty)) :
            PlanOf(RunFromDelete(TRUE, order)) = PlanOf(RunFromDelete(FALSE, order))

\* C3: in a dry run no create, patch or delete of a department and no patch
\* of a user is issued in any phase, and the remote departments and users stay
\* what they were when the run started.
C3_DryRunIssuesNothing ==
    dry_run =>
        /\ \A i \in 1..Len(ops) : ~ops[i].issued /\ ~ops[i].ok
        /\ deps = start_deps
        /\ users = start_users

\* a dry run that reached its end with a delete, a create and a patch of a
\* user computed
C3_DryRunWithEveryKind ==
    /\ dry_run
    /\ pc = "done"
    /\ \E i, j, k \in RunOps :
          /\ ops[i].kind = "delete"
          /\ ops[j].kind = "create"
          /\ ops[k].kind = "patch_user"

\* C4: in the operations of create_dep_from_prepared_list, the create of a
\* node comes after the create of its parent or after its parent was found in
\* the remote listing; the parent of a first-level node is the root.
C4_CreateAfterParent ==
    /\ \A k \in 1..Len(rec_log) :
          rec_log[k].how = "create" =>
              \/ ParentOf(rec_log[k].ext) = HASH_ALL
              \/ \E i \in 1..(k - 1) : rec_log[i].ext = ParentOf(rec_log[k].ext)
    /\ LET created == SelectSeq(rec_log, LAMBDA e : e.how = "create")
           posted == SelectSeq(ops, LAMBDA o : o.run = run /\ o.kind = "create")
       IN  [i \in 1..Len(created) |-> created[i].ext]
               = [i \in 1..Len(posted) |-> posted[i].ext]

\* a department created by the service below a department that is not the
\* root, which the same run created before it
C4_ChildCreatedBelowCreatedParent ==
    \E k \in 1..Len(rec_log) : \E i \in 1..(k - 1) : \E j \in RunOps :
        /\ rec_log[k].how = "create"
        /\ rec_log[i].how = "create"
        /\ rec_log[i].ext = ParentOf(rec_log[k].ext)
        /\ ops[j].kind = "create" /\ ops[j].ext = rec_log[k].ext
        /\ ops[j].ok /\ ops[j].arg # ROOT_ID

\* C5: when the Remote Tree Loader returns an empty list, the deletion
\* computes no delete of a department and no patch that moves a user to the
\* root in that run.
C5_NoDeleteOnEmptyListing ==
    (DeleteDone /\ LoadedAtStart = <<>>) =>
        \A i \in RunOps : ops[i].phase # "delete"

\* the deletion returned after a listing that failed, with a remote department
\* of an external identifier the source does not have
C5_ListingFailedWithOrphan ==
    /\ DeleteDone
    /\ "GET_departments" \in failing
    /\ LoadedAtStart = <<>>
    /\ \E i \in 1..Len(start_deps) :
          /\ start_deps[i].id # ROOT_ID
          /\ Len(start_deps[i].externalId) > 0
          /\ start_deps[i].externalId \notin SourceIds

\* C6: the root department, of id 1 and identifier '#all#', is never the
\* target of a create or of a delete: no run issues the delete of id 1.
C6_RootNeverTarget ==
    \A i \in 1..Len(ops) :
        ops[i].issued =>
            /\ ops[i].kind = "delete" => ops[i].id # ROOT_ID
            /\ ops[i].kind = "create" => ops[i].ext # HASH_ALL

\* C7: every delete that delete_deps_from_y360 issues is of a candidate, a
\* department whose external identifier is not empty and not in the source,
\* or is empty while the option that keeps such departments is off; no
\* department whose external identifier is in the source is deleted.
C7_OnlyCandidatesDeleted ==
    DeleteDone =>
        \A i \in RunOps :
            (ops[i].phase = "delete" /\ ops[i].kind = "delete" /\ ops[i].issued) =>
                LET ext == DepById(start_deps, ops[i].id).externalId
                IN  IF Len(ext) = 0 THEN ~keep_empty ELSE ext \notin SourceIds

\* C8: of two departments deleted in one run, one above the other in the
\* remote tree, the lower one has its delete issued first, whatever the order
\* in which the set of candidates is walked.
C8_DescendantDeletedFirst ==
    \A i, j \in RunOps :
        (/\ i < j
         /\ ops[i].phase = "delete" /\ ops[i].kind = "delete" /\ ops[i].issued
         /\ ops[j].phase = "delete" /\ ops[j].kind = "delete" /\ ops[j].issued
         /\ ops[i].id # ops[j].id)
        => ~IsBelowOrSelf(start_deps, ops[j].id, ops[i].id)

\* C9: when delete_deps_from_y360 issues the delete of a department, every
\* remote user of that department has been sent, before it, the patch that
\* moves the user to the root (stated for the departments other than the
\* root, whose users are where the patch would put them).
C9_UsersMovedBeforeDelete ==
    \A j \in RunOps :
        (/\ ops[j].phase = "delete" /\ ops[j].kind = "delete" /\ ops[j].issued
         /\ ops[j].id # ROOT_ID) =>
            \A u \in 1..Len(start_users) :
                start_users[u].departmentId = ops[j].id =>
                    \E i \in RunOps :
                        /\ i < j
                        /\ ops[i].kind = "patch_user" /\ ops[i].issued
                        /\ ops[i].id = start_users[u].id
                        /\ ops[i].arg = ROOT_ID

\* C10: a remote department with an empty external identifier, other than the
\* root, is a candidate of delete_deps_from_y360 exactly when the option that
\* keeps such departments is off.
C10_EmptyIdCandidateIffNotKept ==
    DeleteDone =>
        \A i \in 1..Len(LoadedAtStart) :
            (Len(LoadedAtStart[i].externalId) = 0 /\ LoadedAtStart[i].id # ROOT_ID) =>
                (LoadedAtStart[i].id \in deps_to_delete <=> ~keep_empty)

\* the deletion returned with a listed department of an empty external
\* identifier kept by the option while another department is a candidate
C10_EmptyIdKeptNextToCandidate ==
    /\ DeleteDone
    /\ keep_empty
    /\ deps_to_delete # {}
    /\ \E i \in 1..Len(LoadedAtStart) :
          /\ Len(LoadedAtStart[i].externalId) = 0
          /\ LoadedAtStart[i].id \notin deps_to_delete

-----------------------------------------------------------------------------
(* The validator and the exits of the main program *)

\* the mail alias of an entry: the local part of the mail of the line
EntryAlias(item) ==
    IF IsUserLine(item) THEN UserLineAlias(item) ELSE GroupLineAlias(item)

\* no alias that is not empty is the alias of two entries
AliasesDistinct(hier) ==
    \A i, j \in 1..Len(hier) :
        (i # j /\ EntryAlias(hier[i]) # EmptyStr)
            => EntryAlias(hier[i]) # EntryAlias(hier[j])

\* C11: check_similar_mails_in_hierarchy returns False when two members, or
\* a member and a node, or two nodes, have the same mail alias, and True
\* when the aliases that are not empty are pairwise distinct.
C11_SimilarMailsFlagged ==
    pc = "validate" =>
        (check_similar_mails_in_hierarchy(hierarchy).ok <=> AliasesDistinct(hierarchy))

\* a member has the alias of a node and the check returns False
C11_MemberSharesNodeAlias ==
    /\ pc = "validate"
    /\ \E i, j \in 1..Len(hierarchy) :
          /\ IsUserLine(hierarchy[i])
          /\ ~IsUserLine(hierarchy[j])
          /\ UserLineAlias(hierarchy[i]) # EmptyStr
          /\ UserLineAlias(hierarchy[i]) = GroupLineAlias(hierarchy[j])
    /\ \A i, j \in 1..Len(hierarchy) :
          (i # j /\ IsUserLine(hierarchy[i]) /\ IsUserLine(hierarchy[j]))
              => UserLineAlias(hierarchy[i]) # UserLineAlias(hierarchy[j])
    /\ ~check_similar_mails_in_hierarchy(hierarchy).ok

\* the hierarchy the main program loaded in this run, before the checks
LoadedHierarchy ==
    IF load_ad_data_from_file THEN load_heirarchy_from_file(ad_data_file).h
    ELSE build_group_hierarchy(ldap).h

\* two node entries carry the same external identifier
DuplicateId(hier) ==
    \E i, j \in 1..Len(hier) :
        /\ i < j
        /\ IsGroupLine(hier[i])
        /\ IsGroupLine(hier[j])
        /\ LineExternalId(hier[i]) = LineExternalId(hier[j])

\* C12: when two node entries of the loaded hierarchy carry the same external
\* identifier, check_similar_groups_in_hierarchy returns False and the run
\* ends at that check: it computes no create, patch or delete.
C12_DuplicateIdStopsRun ==
    (pc # "load" /\ DuplicateId(LoadedHierarchy)) =>
        /\ ~check_similar_groups_in_hierarchy(LoadedHierarchy)
        /\ pc \in {"validate", "exit"}
        /\ hierarchy = LoadedHierarchy
        /\ RunOps = {}

\* a run has ended at the check, with departments of the source still to create
C12_ExitOnDuplicateId ==
    /\ pc = "exit"
    /\ DuplicateId(LoadedHierarchy)
    /\ Len(deps) = 1
    /\ ~dry_run
    /\ RunOps = {}

\* C13: when check_similar_mails_in_hierarchy returns False for the loaded
\* hierarchy, the run issues no create, patch or delete.
C13_SimilarMailsStopRun ==
    (pc # "load" /\ ~check_similar_mails_in_hierarchy(LoadedHierarchy).ok) =>
        \A i \in RunOps : ~ops[i].issued

\* the run has ended at one of the checks of the hierarchy
ExitAtChecks == pc = "exit" /\ Len(hierarchy) > 0 /\ Len(final_list) = 0

\* C14: a node with an empty external identifier does not end the run: when
\* the two other checks pass, the run does not exit at the checks.
C14_EmptyIdDoesNotStopRun ==
    (/\ ~check_empty_external_id(LoadedHierarchy)
     /\ check_similar_groups_in_hierarchy(LoadedHierarchy)
     /\ check_similar_mails_in_hierarchy(LoadedHierarchy).ok) => ~ExitAtChecks

-----------------------------------------------------------------------------
(* The plan of the reconciler *)

\* the nodes of the source, as prepare_deps_list_from_ad_hab lists those of
\* the loaded hierarchy, the root entry left out
SourceNodes ==
    LET dl == prepare_deps_list_from_ad_hab(LoadedHierarchy)
    IN  {dl[i] : i \in 2..Len(dl)}

\* the name of a listed department: the last part of its path
ListedName(r) == Last(Split(r.path, ";"))

\* the department r, listed when the run started, is the node n of the source
\* under another name: the same external identifier, which no other listed
\* department has, and the same external identifier of the parent
IsRenameOf(r, n) ==
    /\ n.externalId # EmptyStr
    /\ r.externalId = n.externalId
    /\ r.prevExternalId = n.prevExternalId
    /\ ListedName(r) # n.current
    /\ \A i \in 1..Len(LoadedAtStart) :
          LoadedAtStart[i].externalId = r.externalId => LoadedAtStart[i] = r

\* the operations the run has issued, as indices of ops
IssuedOps == {i \in RunOps : ops[i].issued}

\* C15: for a node of the source found in the remote tree under the same
\* external identifier and the same parent but under another name, a run
\* whose calls all succeed issues one patch of the name on that department,
\* no create of that external identifier and no delete of that department.
C15_RenameIsOnePatch ==
    (pc \in {"assign", "done"} /\ ~dry_run /\ failing = {}) =>
        \A n \in SourceNodes : \A k \in 1..Len(LoadedAtStart) :
            IsRenameOf(LoadedAtStart[k], n) =>
                /\ Cardinality({i \in IssuedOps :
                       /\ ops[i].kind = "patch_dep"
                       /\ ops[i].id = LoadedAtStart[k].id
                       /\ ops[i].field = "name"}) = 1
                /\ \A i \in IssuedOps :
                       /\ ~(ops[i].kind = "create" /\ ops[i].ext = n.externalId)
                       /\ ~(ops[i].kind = "delete" /\ ops[i].id = LoadedAtStart[k].id)

\* the operations of create_dep_from_prepared_list in the run in progress
ReconcileOps == {i \in RunOps : ops[i].phase = "reconcile"}

\* a patch that moves a department below another parent
IsReparent(o) == o.kind = "patch_dep" /\ o.field = "parentId"

\* C16: the patch that moves a department to its parent of the source is not
\* computed in the pass over the levels: every create and every patch of a
\* name or of a label of the run comes before it.
C16_ReparentAfterLevels ==
    \A i, j \in ReconcileOps :
        (IsReparent(ops[i]) /\ ~IsReparent(ops[j])) => j < i

\* a department was moved below a parent the same run had created
C16_ReparentBelowCreated ==
    \E i, j \in ReconcileOps :
        /\ ops[j].kind = "create"
        /\ ops[j].issued
        /\ ops[j].ok
        /\ IsReparent(ops[i])
        /\ ops[i].issued
        /\ ops[i].ok
        /\ j < i
        /\ \E d \in 1..Len(deps) :
              /\ deps[d].id = ops[i].arg
              /\ deps[d].externalId = ops[j].ext

-----------------------------------------------------------------------------
(* The assignment of the users *)

\* the operations of assign_users_to_deps the run in progress has issued
AssignOps == {i \in IssuedOps : ops[i].phase = "assign" /\ ops[i].kind = "patch_user"}

\* the nodes of final_list, the root left out, that have a member whose mail
\* alias is the nickname or an alias of the user, as indices of final_list
MatchingNodes(user) ==
    {k \in 1..Len(final_list) :
        /\ final_list[k].id360 # ROOT_ID
        /\ LET emails_ad == EmailsAd(SelectSeq(hierarchy, IsUserLine), final_list[k].path)
           IN  \E i \in 1..Len(emails_ad) : UserHasAlias(user, MailAlias(emails_ad[i]))}

\* C17: a remote user matched by the members of more than one node is moved
\* to the first of these nodes only: the run issues no patch of that user to
\* a later one.
C17_FirstMatchOnly ==
    pc = "done" =>
        \A u \in 1..Len(users) :
            LET nodes == MatchingNodes(users[u])
                first == CHOOSE k \in nodes : \A m \in nodes : k <= m
            IN  Cardinality(nodes) > 1 =>
                    \A i \in AssignOps :
                        (ops[i].id = users[u].id /\ ops[i].arg # ROOT_ID)
                            => ops[i].arg = final_list[first].id360

\* the user matches no member of the source: no mail alias of a user line is
\* its nickname or one of its aliases
MatchesNoMember(user) ==
    LET ad_users == SelectSeq(hierarchy, IsUserLine)
    IN  \A i \in 1..Len(ad_users) :
            ~UserHasAlias(user, MailAlias(Lower(Split(Split(ad_users[i], "|")[2], ";")[2])))

\* the operations assign_users_to_deps computes when the main program calls
\* it in this state
AssignPlan ==
    LET a == AssignPhase(Remote(deps, users, ops), Ctx("assign"), all_users, 0,
                         hierarchy, final_list)
    IN  IF a.pc = "done" THEN SubSeq(a.R.ops, Len(ops) + 1, Len(a.R.ops)) ELSE <<>>

\* assign_users_to_deps is about to be called, on a listing of all the users
AssignCalled ==
    /\ pc = "assign"
    /\ failing = {}
    /\ AssignPhase(Remote(deps, users, ops), Ctx("assign"), all_users, 0,
                   hierarchy, final_list).pc = "done"

\* the departments of the nodes of the source, the root left out
NodeDeps == {final_list[k].id360 : k \in 1..Len(final_list)} \ {ROOT_ID}

\* C18 as stated: a user who matches no member of the source is patched to
\* the root exactly when its department is not the root, and a user in the
\* root receives no patch.
C18_UnmatchedPatchedIffBelowRoot ==
    AssignCalled =>
        \A u \in 1..Len(users) :
            (~users[u].isRobot /\ MatchesNoMember(users[u])) =>
                /\ (\E i \in 1..Len(AssignPlan) :
                        AssignPlan[i].id = users[u].id /\ AssignPlan[i].arg = ROOT_ID)
                     <=> users[u].departmentId # ROOT_ID
                /\ users[u].departmentId = ROOT_ID =>
                        \A i \in 1..Len(AssignPlan) : AssignPlan[i].id # users[u].id

\* C18, amended: a user who matches no member of the source is patched to
\* the root exactly when its department is the department of a node of the
\* source other than the root; a user in the root, or in a department that is
\* not a node of the source, receives no patch.
C18_UnmatchedPatchedIffInNode ==
    AssignCalled =>
        \A u \in 1..Len(users) :
            (~users[u].isRobot /\ MatchesNoMember(users[u])) =>
                /\ (\E i \in 1..Len(AssignPlan) :
                        AssignPlan[i].id = users[u].id /\ AssignPlan[i].arg = ROOT_ID)
                     <=> users[u].departmentId \in NodeDeps
                /\ users[u].departmentId \notin NodeDeps =>
                        \A i \in 1..Len(AssignPlan) : AssignPlan[i].id # users[u].id
                /\ \A i \in 1..Len(AssignPlan) :
                        AssignPlan[i].id = users[u].id => AssignPlan[i].arg = ROOT_ID

\* an applied run is about to move a user who matches no member out of the
\* department of a node, to the root
C18_UnmatchedInNodePatched ==
    /\ AssignCalled
    /\ ~dry_run
    /\ \E u \in 1..Len(users) :
          /\ MatchesNoMember(users[u])
          /\ users[u].departmentId \in NodeDeps
          /\ \E i \in 1..Len(AssignPlan) :
                /\ AssignPlan[i].id = users[u].id
                /\ AssignPlan[i].arg = ROOT_ID
                /\ AssignPlan[i].issued

-----------------------------------------------------------------------------
(* The remote calls *)

\* the requests the retry policy allows a call: MAX_RETRIES, for each page
RetryBudget(c) == MAX_RETRIES * (IF IsListing(c.fn) THEN Len(c.pages) ELSE 1)

\* C19: every remote call returns after a bounded number of requests,
\* whatever the service answers and also when every request raises: a call
\* that has made the requests the retry policy allows has returned.
C19_CallsWithinRetryBudget ==
    (pc = "call" /\ Len(call.log) >= RetryBudget(call)) => call.status = "returned"

\* the requests of one page have failed: one has raised, or MAX_RETRIES in a
\* row were answered with an error
PageFailed(log) ==
    \/ \E i \in 1..Len(log) : log[i] = "exception"
    \/ \E i \in 1..(Len(log) - MAX_RETRIES + 1) :
          \A k \in 0..(MAX_RETRIES - 1) : log[i + k] = "error"

\* the whole list, as the main program reads it when the service answers
FullListing(fn) ==
    IF fn = "get_all_api360_departments" THEN get_all_api360_departments(deps, {})
    ELSE get_all_api360_users_from_api(users, {})

\* C20: a listing returns the items of all the pages, or the empty list when
\* the requests of a page have failed; it never returns a part of the list.
C20_ListingAllOrNothing ==
    (pc = "call" /\ IsListing(call.fn) /\ call.status = "returned") =>
        call.result = IF PageFailed(call.log) THEN <<>> ELSE FullListing(call.fn)

\* a listing has returned the empty list after it had read a page that was
\* not empty
C20_FailedAfterFirstPage ==
    /\ pc = "call"
    /\ IsListing(call.fn)
    /\ call.status = "returned"
    /\ Len(call.items) > 0
    /\ PageFailed(call.log)
    /\ call.result = <<>>

-----------------------------------------------------------------------------
(* Runs in which the service answers every call of one writing endpoint     *)
(* with an error until the retries are used up.                             *)

WriteFailModes ==
    {{"DELETE_department"}, {"POST_department"}, {"PATCH_department"}, {"PATCH_user"}}

\* the remote departments of the runs from a file, and: B alone below the
\* root, two departments the source does not have, and these two with A
InitFailDeps ==
    InitFileDeps \cup
    {<<RootDep, FileDep(2, 1, "B", Str("y"))>>,
     <<RootDep, FileDep(2, 1, "C", Str("w")), FileDep(3, 1, "D", Str("v"))>>,
     <<RootDep, FileDep(2, 1, "A", Str("x")), FileDep(3, 2, "C", Str("w")),
       FileDep(4, 1, "D", Str("v"))>>}

\* no remote user, or the user u in any department
InitFailUsers(ds) ==
    {<<>>} \cup {<<FileUser(1, "u", <<Str("v")>>, d)>> : d \in DepIds(ds)}

InitFail ==
    /\ ldap = SrcLdap(1, EmptyStr)
    /\ deps \in InitFailDeps
    /\ users \in InitFailUsers(deps)
    /\ failing \in WriteFailModes
    /\ dry_run = FALSE
    /\ keep_empty \in BOOLEAN
    /\ all_users = <<>>
    /\ hierarchy = <<>>
    /\ final_list = <<>>
    /\ deps_to_delete = {}
    /\ rec_log = <<>>
    /\ ops = <<>>
    /\ run = 1
    /\ start_deps = deps
    /\ start_users = users
    /\ pc = "load"
    /\ load_ad_data_from_file = TRUE
    /\ ad_data_file \in InitFiles
    /\ call = NoCall

SpecFail == InitFail /\ [][Next]_vars

\* the ids for which this run has issued a delete
DeletesIssued ==
    {ops[i].id : i \in {j \in RunOps : ops[j].kind = "delete" /\ ops[j].issued}}

\* create_dep_from_prepared_list, called in the state at hand, with the
\* endpoints fl failing
ReconcileWith(fl) ==
    create_dep_from_prepared_list(Remote(deps, users, ops),
                                  [Ctx("reconcile") EXCEPT !.fl = fl],
                                  final_list, MaxLevels(final_list))

\* C21: a call that fails does not end the plan: when delete_deps_from_y360
\* has returned, a delete has been issued for every candidate, whichever of
\* the deletes failed; and a reconciliation that would run to its end if every
\* call succeeded runs to its end when calls fail, so that the operations
\* after it are attempted.
C21_FailureIsolated ==
    /\ (DeleteDone /\ ~dry_run) => deps_to_delete \subseteq DeletesIssued
    /\ (pc = "reconcile" /\ ~dry_run /\ ~ReconcileWith({}).crashed)
           => ~ReconcileWith(failing).crashed

\* the creates create_dep_from_prepared_list has issued in this run
CreatesIssued ==
    {i \in ReconcileOps : ops[i].kind = "create" /\ ops[i].issued}

\* the remote ids a create of the node ext may name as parentId: the root
\* for a top node, and else the departments that carry the external
\* identifier of the parent of the node in the source
RealParentIds(ext) ==
    IF ParentOf(ext) = HASH_ALL THEN {ROOT_ID}
    ELSE {deps[k].id : k \in {j \in 1..Len(deps) :
                                 Lower(deps[j].externalId) = ParentOf(ext)}}

\* C22: in a run that is not a dry run, every create issued by
\* create_dep_from_prepared_list has as parentId the id of the remote
\* department of the node's parent in the source, and never 0.
C22_CreateBelowRealParent ==
    ~dry_run => \A i \in CreatesIssued :
                    /\ ops[i].arg # 0
                    /\ ops[i].arg \in RealParentIds(ops[i].ext)

\* the listing create_dep_from_prepared_list reads when it is called in the
\* state at hand
ListedNow == generate_deps_list_from_api(deps, failing)

\* the nodes the call defers to the second pass: those whose external
\* identifier is listed, below a department of another external identifier
\* than the parent in the source
Deferred ==
    {i \in 1..Len(final_list) :
        /\ final_list[i].level >= 1
        /\ \E k \in {FirstIdx(ListedNow,
                              LAMBDA e : e.externalId = final_list[i].externalId)} :
              /\ k # 0
              /\ ListedNow[k].prevExternalId # final_list[i].prevExternalId}

\* the id of the listed department of an external identifier
ListedId(ext) ==
    ListedNow[FirstIdx(ListedNow, LAMBDA e : e.externalId = ext)].id

\* the patches of a parent among the operations the call adds to ops
ReparentsOf(acc, id) ==
    {j \in (Len(ops) + 1)..Len(acc.R.ops) :
        IsReparent(acc.R.ops[j]) /\ acc.R.ops[j].id = id}

\* C23: when create_dep_from_prepared_list is called in a run that is not a
\* dry run and in which no call fails, it ends without an exception, and for
\* every node it defers it issues exactly one patch of the parent, on the
\* remote id of the node, to the id of the remote department that carries the
\* external identifier of the parent in the source (the root for a top node).
C23_ReparentPassPatchesEach ==
    (pc = "reconcile" /\ ~dry_run /\ failing = {}) =>
        \E acc \in {ReconcileWith(failing)} :
            /\ ~acc.crashed
            /\ \A i \in Deferred :
                  \E id \in {ListedId(final_list[i].externalId)} :
                      /\ Cardinality(ReparentsOf(acc, id)) = 1
                      /\ \A j \in ReparentsOf(acc, id) :
                            /\ acc.R.ops[j].issued
                            /\ \E d \in 1..Len(acc.R.deps) :
                                  /\ acc.R.deps[d].id = acc.R.ops[j].arg
                                  /\ IF final_list[i].prevExternalId = HASH_ALL
                                     THEN acc.R.deps[d].id = ROOT_ID
                                     ELSE Lower(acc.R.deps[d].externalId)
                                              = final_list[i].prevExternalId

\* the nodes the call finds in place: listed, below the department that
\* carries the external identifier of the parent in the source
FoundInPlace ==
    {i \in 1..Len(final_list) :
        /\ final_list[i].level >= 1
        /\ \E k \in {FirstIdx(ListedNow,
                              LAMBDA e : e.externalId = final_list[i].externalId)} :
              /\ k # 0
              /\ ListedNow[k].prevExternalId = final_list[i].prevExternalId}

\* every operation the call adds to ops is issued and succeeds
AllCallsSucceed(acc) ==
    \A j \in (Len(ops) + 1)..Len(acc.R.ops) : acc.R.ops[j].issued /\ acc.R.ops[j].ok

\* C24: when create_dep_from_prepared_list is called in a run that is not a
\* dry run and every call it makes succeeds, then after it every node found
\* in place has, on the remote side, the name of the source and as label the
\* local part of the mail of the source.
C24_NameAndLabelConverge ==
    (pc = "reconcile" /\ ~dry_run /\ failing = {}) =>
        \E acc \in {ReconcileWith(failing)} :
            (~acc.crashed /\ AllCallsSucceed(acc)) =>
                \A i \in FoundInPlace :
                    \A d \in 1..Len(acc.R.deps) :
                        acc.R.deps[d].id = ListedId(final_list[i].externalId) =>
                            /\ acc.R.deps[d].name = final_list[i].current
                            /\ acc.R.deps[d].label = MailLabel(final_list[i].email)

-----------------------------------------------------------------------------
(* create_dep_from_prepared_list called on its own, on the list that         *)
(* prepare_deps_list_from_ad_hab makes of the lines of a file, without the   *)
(* checks of the main program before it.                                     *)

InitRec ==
    /\ ldap = SrcLdap(1, EmptyStr)
    /\ deps \in InitFileDeps
    /\ users \in InitFailUsers(deps)
    /\ failing = {}
    /\ dry_run \in BOOLEAN
    /\ keep_empty = TRUE
    /\ all_users = <<>>
    /\ ad_data_file \in InitFiles
    /\ hierarchy = load_heirarchy_from_file(ad_data_file).h
    /\ final_list = prepare_deps_list_from_ad_hab(hierarchy)
    /\ deps_to_delete = {}
    /\ rec_log = <<>>
    /\ ops = <<>>
    /\ run = 1
    /\ start_deps = deps
    /\ start_users = users
    /\ pc = "reconcile"
    /\ load_ad_data_from_file = TRUE
    /\ call = NoCall

NextRec == Reconcile

SpecRec == InitRec /\ [][NextRec]_vars

\* the call of create_dep_from_prepared_list has ended
ReconcileDone == pc \in {"assign", "crashed"} /\ Len(rec_log) > 0

\* C25: create_dep_from_prepared_list never finds a node of an empty external
\* identifier on the remote side: it takes the branch that creates it, and a
\* create of it is among the operations, also when a remote department has
\* an empty external identifier.
C25_EmptyIdAlwaysCreated ==
    ReconcileDone =>
        \A k \in 1..Len(rec_log) :
            rec_log[k].ext = EmptyStr =>
                /\ rec_log[k].how = "create"
                /\ \E i \in ReconcileOps : ops[i].kind = "create" /\ ops[i].ext = EmptyStr

-----------------------------------------------------------------------------
(* The order of the phases *)

\* C26: within a run no delete of a department is issued before a create, a
\* patch of a name or of a label, or a patch of a parent of the same run.
C26_DeletesAfterConvergence ==
    \A i, j \in IssuedOps :
        (ops[i].kind = "delete" /\ ops[j].kind \in {"create", "patch_dep"}) => j < i

-----------------------------------------------------------------------------
(* The identifiers of the created departments *)

\* the pass over the levels of create_dep_from_prepared_list has ended
LevelsDone ==
    \/ pc \in {"assign", "done"}
    \/ pc = "exit" /\ Len(rec_log) > 0

\* the nodes whose create this run has issued with success
CreatedNodes ==
    {i \in 1..Len(final_list) :
        \E j \in CreatesIssued : ops[j].ok /\ ops[j].ext = final_list[i].externalId}

\* the ids of the remote departments of an external identifier
RemoteIdsOf(ext) ==
    {deps[k].id : k \in {j \in 1..Len(deps) : Lower(deps[j].externalId) = ext}}

\* C27: a level that creates a department reads the listing again before it
\* records the ids of its nodes and before a deeper level is looked up: after
\* the pass over the levels, the '360id' of every node created with success is
\* the id of a remote department of its external identifier, and every
\* create issued below such a node has that id as parentId.
C27_CreatedIdResolved ==
    (LevelsDone /\ ~dry_run) =>
        \A i \in CreatedNodes :
            /\ final_list[i].id360 \in RemoteIdsOf(final_list[i].externalId)
            /\ \A j \in CreatesIssued :
                  ParentOf(ops[j].ext) = final_list[i].externalId
                      => ops[j].arg = final_list[i].id360

-----------------------------------------------------------------------------
(* The departments of the users after the assignment *)

\* the mail aliases of the members of the node of a path
MemberAliases(path) ==
    LET emails_ad == EmailsAd(SelectSeq(hierarchy, IsUserLine), path)
    IN  {MailAlias(emails_ad[i]) : i \in 1..Len(emails_ad)}

\* no mail alias is the alias of members of two nodes of the source
NoAliasInTwoNodes ==
    \A i, k \in 1..Len(final_list) :
        final_list[i].path # final_list[k].path
            => MemberAliases(final_list[i].path) \cap MemberAliases(final_list[k].path) = {}

\* the remote users after assign_users_to_deps, called in the state at hand
UsersAfterAssign ==
    assign_users_to_deps(Remote(deps, users, ops), Ctx("assign"), final_list,
                         SelectSeq(hierarchy, IsUserLine),
                         get_all_api360_users(all_users, 0, users, failing, TRUE)).users

\* the department of a user after the call
DepartmentAfter(id) ==
    UsersAfterAssign[FirstIdx(UsersAfterAssign, LAMBDA u : u.id = id)].departmentId

\* the call is made in a run that is not a dry run, every patch it issues
\* succeeds, and no alias is in two nodes
AssignApplied ==
    /\ AssignCalled
    /\ ~dry_run
    /\ \A i \in 1..Len(AssignPlan) : AssignPlan[i].ok
    /\ NoAliasInTwoNodes

\* C28: after assign_users_to_deps, in a run that is not a dry run, whose
\* calls succeed and in which no alias is in two nodes of the source, every
\* listed user that a member of a node N matches is in the department of N,
\* and every listed user that was in the department of a node and matches no
\* member is in the root.
C28_MembershipPostcondition ==
    AssignApplied =>
        \A u \in 1..Len(users) :
            ~users[u].isRobot =>
                /\ \A k \in MatchingNodes(users[u]) :
                      DepartmentAfter(users[u].id) = final_list[k].id360
                /\ (users[u].departmentId \in NodeDeps /\ MatchesNoMember(users[u]))
                      => DepartmentAfter(users[u].id) = ROOT_ID

\* C28, amended: the same for the listed users that the members of at most
\* one node match; a user that members of two nodes match, each by another
\* of its names, cannot be in the departments of both.
C28_PostconditionOneNode ==
    AssignApplied =>
        \A u \in 1..Len(users) :
            (~users[u].isRobot /\ Cardinality(MatchingNodes(users[u])) <= 1) =>
                /\ \A k \in MatchingNodes(users[u]) :
                      DepartmentAfter(users[u].id) = final_list[k].id360
                /\ (users[u].departmentId \in NodeDeps /\ MatchesNoMember(users[u]))
                      => DepartmentAfter(users[u].id) = ROOT_ID

\* the call moves a user that a member of one node matches, by an alias, to
\* the department of that node, and a user of a node that matches no member
\* to the root
C28_MatchedMovedUnmatchedToRoot ==
    /\ AssignApplied
    /\ \E u, w \in 1..Len(users) :
          /\ Cardinality(MatchingNodes(users[u])) = 1
          /\ \A k \in MatchingNodes(users[u]) :
                /\ users[u].departmentId # final_list[k].id360
                /\ DepartmentAfter(users[u].id) = final_list[k].id360
                /\ ~(Lower(users[u].nickname) \in MemberAliases(final_list[k].path))
          /\ MatchesNoMember(users[w])
          /\ users[w].departmentId \in NodeDeps
          /\ DepartmentAfter(users[w].id) = ROOT_ID

-----------------------------------------------------------------------------
(* The Remote Tree Loader, applied by delete_deps_from_y360 to remote trees  *)
(* of up to MaxLoadDeps departments, whose names may have blanks around them *)
(* and whose external identifiers may have capital letters.                  *)

MaxLoadDeps == 3

LoadNames == {<<"A">>, <<" ", "B">>}
LoadIds == {<<"x">>, <<"Y">>}

LoadChoices(i) ==
    {[id |-> i, parentId |-> p, name |-> n, label |-> EmptyStr, externalId |-> e] :
        p \in 1..(i - 1), n \in LoadNames, e \in LoadIds}

RECURSIVE LoadSeqs(_)
LoadSeqs(n) ==
    IF n = 0 THEN {<<RootDep>>}
    ELSE {Append(ds, d) : ds \in LoadSeqs(n - 1), d \in LoadChoices(n + 1)}

InitLoadDeps == UNION {LoadSeqs(n) : n \in 1..MaxLoadDeps}

InitLoad ==
    /\ ldap = SrcLdap(1, EmptyStr)
    /\ deps \in InitLoadDeps
    /\ users = <<>>
    /\ failing = {}
    /\ dry_run \in BOOLEAN
    /\ keep_empty \in BOOLEAN
    /\ all_users = <<>>
    /\ ad_data_file = <<GroupLine(PathA, EmptyStr, HASH_ALL, Str("x"))>>
    /\ hierarchy = load_heirarchy_from_file(ad_data_file).h
    /\ final_list = prepare_deps_list_from_ad_hab(hierarchy)
    /\ deps_to_delete = {}
    /\ rec_log = <<>>
    /\ ops = <<>>
    /\ run = 1
    /\ start_deps = deps
    /\ start_users = users
    /\ pc = "delete"
    /\ load_ad_data_from_file = TRUE
    /\ call = NoCall

NextLoad == Delete

SpecLoad == InitLoad /\ [][NextLoad]_vars

\* the names of the ancestors of a department below the root and its own
\* name, joined by ';'
RECURSIVE NamesPath(_, _)
NamesPath(ds, id) ==
    LET d == DepById(ds, id)
    IN  IF d.parentId = ROOT_ID THEN d.name
        ELSE NamesPath(ds, d.parentId) \o <<";">> \o d.name

\* the same with every name stripped of the blanks around it
RECURSIVE StrippedNamesPath(_, _)
StrippedNamesPath(ds, id) ==
    LET d == DepById(ds, id)
    IN  IF d.parentId = ROOT_ID THEN Strip(d.name)
        ELSE StrippedNamesPath(ds, d.parentId) \o <<";">> \o Strip(d.name)

\* the prevExternalId the claim gives a department
ParentExternalId(ds, id) ==
    LET d == DepById(ds, id)
    IN  IF d.parentId = ROOT_ID THEN HASH_ALL
        ELSE Lower(DepById(ds, d.parentId).externalId)

\* what the loader returns to delete_deps_from_y360, read when the function
\* is called
LoaderCalled == pc = "delete" /\ failing = {}
Loaded == generate_deps_list_from_api(deps, failing)
EntriesOf(id) == {k \in 1..Len(Loaded) : Loaded[k].id = id}

\* C29: the loader returns, for every department other than the root, one
\* entry: its path is the names of the ancestors below the root and its own
\* name joined by ';', its prevExternalId the lower-cased external identifier
\* of the parent, or '#all#' below the root; the root has no entry.
C29_LoaderEntries ==
    LoaderCalled =>
        /\ EntriesOf(ROOT_ID) = {}
        /\ \A id \in DepIds(deps) \ {ROOT_ID} :
              /\ Cardinality(EntriesOf(id)) = 1
              /\ \A k \in EntriesOf(id) :
                    /\ Loaded[k].path = NamesPath(deps, id)
                    /\ Loaded[k].prevExternalId = ParentExternalId(deps, id)

\* C29, amended: the same with the path made of the names stripped of the
\* blanks around them.
C29_LoaderEntriesStripped ==
    LoaderCalled =>
        /\ EntriesOf(ROOT_ID) = {}
        /\ \A id \in DepIds(deps) \ {ROOT_ID} :
              /\ Cardinality(EntriesOf(id)) = 1
              /\ \A k \in EntriesOf(id) :
                    /\ Loaded[k].path = StrippedNamesPath(deps, id)
                    /\ Loaded[k].prevExternalId = ParentExternalId(deps, id)

\* the loader is called on a tree three departments deep, whose deepest
\* department is below one with capital letters in its external identifier
C29_ThreeDeep ==
    /\ LoaderCalled
    /\ \E a, b, c \in DepIds(deps) :
          /\ DepById(deps, a).parentId = ROOT_ID
          /\ DepById(deps, b).parentId = a
          /\ DepById(deps, c).parentId = b
          /\ DepById(deps, b).externalId = <<"Y">>
          /\ \E k \in EntriesOf(c) : Loaded[k].prevExternalId = <<"y">>

-----------------------------------------------------------------------------
(* The Hierarchy Encoder, applied to directories of up to MaxEncGroups       *)
(* groups, each a member of one or more of the groups before it, and two     *)
(* persons, each a member of one group or of none.                           *)

MaxEncGroups == 3

EncGroup(k, parents) ==
    [dn |-> k,
     cn |-> Str(CASE k = 1 -> "a" [] k = 2 -> "b" [] k = 3 -> "d" [] OTHER -> "e"),
     name |-> Str(CASE k = 1 -> "A" [] k = 2 -> "B" [] k = 3 -> "D" [] OTHER -> "E"),
     mail |-> EmptyStr,
     externalId |-> Str(CASE k = 1 -> "x" [] k = 2 -> "y" [] k = 3 -> "z" [] OTHER -> "w"),
     sam |-> <<"g", CASE k = 1 -> "x" [] k = 2 -> "y" [] k = 3 -> "z" [] OTHER -> "w">>,
     memberOf |-> parents]

\* the groups: each after the first is a member of a non-empty set of the
\* groups before it
RECURSIVE EncGroups(_)
EncGroups(n) ==
    IF n = 1 THEN {<<EncGroup(1, {})>>}
    ELSE {Append(gs, EncGroup(n, ps)) :
             gs \in EncGroups(n - 1), ps \in (SUBSET (1..(n - 1))) \ {{}}}

EncPerson(c, k) ==
    [mail |-> MailOf(c), displayName |-> Str(c), cn |-> <<"C", c>>,
     ex14 |-> IF k = 0 THEN EmptyStr ELSE EncGroup(k, {}).sam]

\* the directory as it is, or with the name attribute of its groups and the
\* displayName of its persons left out
Unnamed(L, named) ==
    IF named THEN L
    ELSE [L EXCEPT !.groups = [k \in 1..Len(L.groups) |->
                                  [L.groups[k] EXCEPT !.name = EmptyStr]],
                   !.persons = [k \in 1..Len(L.persons) |->
                                   [L.persons[k] EXCEPT !.displayName = EmptyStr]]]

EncLdaps ==
    {Unnamed([groups |-> gs,
              persons |-> <<EncPerson("u", k1), EncPerson("v", k2)>>,
              root |-> 1], named) :
        gs \in UNION {EncGroups(n) : n \in 1..MaxEncGroups},
        k1 \in 0..MaxEncGroups, k2 \in 0..MaxEncGroups, named \in BOOLEAN}

InitEnc ==
    /\ ldap \in EncLdaps
    /\ deps = <<RootDep>>
    /\ users = <<>>
    /\ failing = {}
    /\ dry_run = FALSE
    /\ keep_empty = FALSE
    /\ all_users = <<>>
    /\ hierarchy = <<>>
    /\ final_list = <<>>
    /\ deps_to_delete = {}
    /\ rec_log = <<>>
    /\ ops = <<>>
    /\ run = 1
    /\ start_deps = deps
    /\ start_users = users
    /\ pc = "load"
    /\ load_ad_data_from_file = FALSE
    /\ ad_data_file = NoFile
    /\ call = NoCall

NextEnc == Load

SpecEnc == InitEnc /\ [][NextEnc]_vars

\* the path of a line: what stands before '~' or '|'
LinePath(item) ==
    IF IsUserLine(item) THEN Split(item, "|")[1] ELSE Split(item, "~")[1]

\* the node of path q is below the node of path p
IsBelow(q, p) ==
    Len(q) > Len(p) /\ SubSeq(q, 1, Len(p)) = p /\ q[Len(p) + 1] = ";"

\* the path of the parent of a node that is not a top node
ParentPath(p) ==
    LET parts == Split(p, ";")
    IN  Join(SubSeq(parts, 1, Len(parts) - 1), ";")

\* build_group_hierarchy has returned the hierarchy
Encoded == pc = "validate" /\ ~load_ad_data_from_file

\* C30: in the hierarchy the encoder returns, the line of a node stands
\* before every line of the nodes below it, the lines of the members of a node
\* follow the line of the node with no other line between, and the line of a
\* node that is not a top node has the external identifier of its parent as
\* the first of its two identifiers.
C30_EncoderOrder ==
    Encoded =>
        /\ \A i, j \in 1..Len(hierarchy) :
              (IsGroupLine(hierarchy[i])
                  /\ IsBelow(LinePath(hierarchy[j]), LinePath(hierarchy[i]))) => i < j
        /\ \A j \in 1..Len(hierarchy) :
              IsUserLine(hierarchy[j]) =>
                  /\ j > 1
                  /\ LinePath(hierarchy[j - 1]) = LinePath(hierarchy[j])
        /\ \A i \in 1..Len(hierarchy) :
              (IsGroupLine(hierarchy[i]) /\ Contains(LinePath(hierarchy[i]), ";")) =>
                  \E k \in 1..Len(hierarchy) :
                      /\ IsGroupLine(hierarchy[k])
                      /\ LinePath(hierarchy[k]) = ParentPath(LinePath(hierarchy[i]))
                      /\ LinePrevExternalId(hierarchy[i]) = LineExternalId(hierarchy[k])

\* a hierarchy with two nodes below the top node, a node below one of them,
\* and members in two nodes
C30_BranchesAndMembers ==
    /\ Encoded
    /\ \E a, b, c, m, n \in 1..Len(hierarchy) :
          /\ a # b
          /\ IsGroupLine(hierarchy[a]) /\ IsGroupLine(hierarchy[b])
          /\ IsGroupLine(hierarchy[c])
          /\ ParentPath(LinePath(hierarchy[a])) = ParentPath(LinePath(hierarchy[b]))
          /\ Contains(LinePath(hierarchy[a]), ";")
          /\ IsBelow(LinePath(hierarchy[c]), LinePath(hierarchy[a]))
          /\ IsUserLine(hierarchy[m]) /\ IsUserLine(hierarchy[n])
          /\ LinePath(hierarchy[m]) # LinePath(hierarchy[n])

\* ---------------------------------------------------------------------------
\* The retry budget of a remote call
\* ---------------------------------------------------------------------------

\* the number of requests answered with an error since the last one answered OK
RECURSIVE TrailingErrors(_)
TrailingErrors(log) ==
    IF log = <<>> \/ log[Len(log)] # "error" THEN 0
    ELSE 1 + TrailingErrors(SubSeq(log, 1, Len(log) - 1))

\* the waits a log of answers calls for: RETRIES_DELAY_SEC * k after the k-th
\* failed attempt of a request, none after the last attempt
RECURSIVE WaitsFor(_)
WaitsFor(log) ==
    IF log = <<>> THEN <<>>
    ELSE LET before == SubSeq(log, 1, Len(log) - 1)
             k == TrailingErrors(log)
         IN  IF k >= 1 /\ k < MAX_RETRIES
             THEN Append(WaitsFor(before), RETRIES_DELAY_SEC * k)
             ELSE WaitsFor(before)

\* every answer so far carried a status (no request raised)
OnlyStatuses == pc = "call" /\ "exception" \notin Range(call.log)

\* C31: while the service answers with statuses only, a request is attempted at
\* most MAX_RETRIES times; the call waits RETRIES_DELAY_SEC * k after the k-th
\* failed attempt; it reports failure exactly when MAX_RETRIES attempts of one
\* request have failed; and an OK answer ends the retries of that request at once
\* (a function of one request returns success, a listing goes to its next page)
C31_RetryBudget ==
    OnlyStatuses =>
        LET k == TrailingErrors(call.log)
        IN  /\ k <= MAX_RETRIES
            /\ call.sleeps = WaitsFor(call.log)
            /\ (k = MAX_RETRIES) <=> (call.status = "returned" /\ call.has_errors)
            /\ k = MAX_RETRIES =>
                   call.result = (IF IsListing(call.fn) THEN <<>> ELSE FALSE)
            /\ (call.log # <<>> /\ Last(call.log) = "ok") =>
                   /\ call.retries = 1 \/ call.status = "returned"
                   /\ ~IsListing(call.fn) => call.status = "returned" /\ call.result = TRUE
                   /\ IsListing(call.fn) =>
                          (call.status = "returned") = (call.current_page > Len(call.pages))

\* a deletion gave up after three refused attempts, having waited 2 s then 4 s
C31_ThreeAttemptsThenFailure ==
    /\ pc = "call"
    /\ call.fn = "delete_department_by_api"
    /\ call.log = <<"error", "error", "error">>
    /\ call.sleeps = <<RETRIES_DELAY_SEC, 2 * RETRIES_DELAY_SEC>>
    /\ call.status = "returned"
    /\ call.result = FALSE

\* ---------------------------------------------------------------------------
\* The cache of the user listing over time
\* ---------------------------------------------------------------------------

\* the clock advances at most MaxTicks times, by one of these steps (seconds)
MaxTicks == 3
ClockSteps == {1, ALL_USERS_REFRESH_IN_MINUTES * 60}

\* the listings that sleep between their retries are followed up to MaxSlept
MaxSlept == 2

\* the seconds get_all_api360_users_from_api takes: when GET /users is refused
\* it sleeps RETRIES_DELAY_SEC * k after the k-th attempt, but for the last of
\* the MAX_RETRIES; a listing that is answered takes no time
FetchSeconds(fl) ==
    LET RECURSIVE Slept(_)
        Slept(k) == IF k = 0 THEN 0 ELSE RETRIES_DELAY_SEC * k + Slept(k - 1)
    IN  IF "GET_users" \in fl THEN Slept(MAX_RETRIES - 1) ELSE 0

\* the callers of get_all_api360_users and the force flag each one passes
Readers ==
    {[fn |-> "delete_deps_from_y360", force |-> TRUE],
     [fn |-> "assign_users_to_deps", force |-> TRUE],
     [fn |-> "generate_api360_hierarchy", force |-> TRUE],
     [fn |-> "clear_dep_info_for_users", force |-> FALSE],
     [fn |-> "__main__", force |-> FALSE]}

\* the phases that patch users
PatchingPhases == {"delete_deps_from_y360", "assign_users_to_deps"}

NoRead == [fn |-> "none"]

\* settings as get_settings builds it: no list, the timestamp of the start
InitCache ==
    /\ ldap = SrcLdap(1, EmptyStr)
    /\ deps = <<RootDep, FileDep(2, 1, "A", Str("x"))>>
    /\ users \in InitFileUsers(deps)
    /\ failing \in {{}, {"GET_users"}}
    /\ dry_run = FALSE
    /\ keep_empty = FALSE
    /\ all_users = <<>>
    /\ hierarchy = <<>>
    /\ final_list = <<>>
    /\ deps_to_delete = {}
    /\ rec_log = <<>>
    /\ ops = <<>>
    /\ run = 1
    /\ start_deps = deps
    /\ start_users = users
    /\ pc = "cache"
    /\ load_ad_data_from_file = FALSE
    /\ ad_data_file = NoFile
    /\ call = [fn |-> "get_all_api360_users", now |-> 0, all_users_get_timestamp |-> 0,
               ticks |-> 0, slept |-> 0, last |-> NoRead]

Uncached == <<ldap, deps, failing, dry_run, keep_empty, hierarchy, final_list,
              deps_to_delete, rec_log, ops, run, start_deps, start_users, pc,
              load_ad_data_from_file, ad_data_file>>

\* time passes
Tick ==
    /\ pc = "cache"
    /\ call.ticks < MaxTicks
    /\ \E d \in ClockSteps :
          call' = [call EXCEPT !.now = @ + d, !.ticks = @ + 1, !.last = NoRead]
    /\ UNCHANGED <<users, all_users>>
    /\ UNCHANGED Uncached

\* a phase patches a user between two readings of the list
UserPatched ==
    /\ pc = "cache"
    /\ \E i \in 1..Len(users) : \E d \in DepIds(deps) \ {users[i].departmentId} :
          users' = patch_user_by_api(Remote(deps, users, ops), Ctx("assign"),
                                     users[i].id, d).users
    /\ call' = [call EXCEPT !.last = NoRead]
    /\ UNCHANGED all_users
    /\ UNCHANGED Uncached

\* one of the callers reads the list.  The clock is read for the age of the
\* cache (line 550) and, after the listing has returned, again for the
\* timestamp (line 553): by then it has advanced by the time the listing took
GetAllUsers ==
    /\ pc = "cache"
    /\ \E rd \in Readers :
       \E age \in {call.now - call.all_users_get_timestamp} :
       \E fetch \in {Refetches(all_users, age, rd.force)} :
       \E took \in {IF fetch THEN FetchSeconds(failing) ELSE 0} :
          /\ took > 0 => call.slept < MaxSlept
          /\ all_users' = get_all_api360_users(all_users, age, users, failing, rd.force)
          /\ call' = [call EXCEPT
                        !.now = @ + took,
                        !.slept = IF took > 0 THEN @ + 1 ELSE @,
                        !.all_users_get_timestamp = IF fetch THEN call.now + took ELSE @,
                        !.last = [fn |-> rd.fn, force |-> rd.force, age |-> age,
                                  cache |-> all_users, fetched |-> fetch, took |-> took,
                                  read_at |-> call.now,
                                  timestamp |-> call.all_users_get_timestamp]]
    /\ UNCHANGED users
    /\ UNCHANGED Uncached

NextCache == Tick \/ UserPatched \/ GetAllUsers

SpecCache == InitCache /\ [][NextCache]_vars

\* a caller has just read the list
JustRead == pc = "cache" /\ call.last # NoRead

\* C32: get_all_api360_users returns the cached list without calling the API
\* exactly when force is false, the cache is not empty and its age is at most
\* ALL_USERS_REFRESH_IN_MINUTES, the age being the time from the timestamp to
\* the entry of the call; otherwise it calls the API, stores what the API
\* returned and sets the timestamp to the time at which the API has returned,
\* which is the time of the entry plus the time the listing took; the two phases
\* that patch users force the call, so they read the list the service has then
C32_UserListCache ==
    JustRead =>
        LET rd == call.last
            listed == get_all_api360_users_from_api(users, failing)
        IN  /\ ~rd.fetched <=> (/\ ~rd.force
                                /\ rd.cache # <<>>
                                /\ rd.age <= ALL_USERS_REFRESH_IN_MINUTES * 60)
            /\ rd.age = rd.read_at - rd.timestamp
            /\ ~rd.fetched => /\ all_users = rd.cache
                              /\ call.all_users_get_timestamp = rd.timestamp
                              /\ call.now = rd.read_at
            /\ rd.fetched => /\ all_users = listed
                             /\ call.all_users_get_timestamp = call.now
                             /\ call.now = rd.read_at + rd.took
                             /\ rd.took = FetchSeconds(failing)
            /\ rd.fn \in PatchingPhases => rd.fetched /\ all_users = listed

\* the main program read a list fetched exactly ALL_USERS_REFRESH_IN_MINUTES ago
\* from the cache, although a user has been moved since
C32_StaleListAtTheLimit ==
    /\ JustRead
    /\ call.last.fn = "__main__"
    /\ ~call.last.fetched
    /\ call.last.age = ALL_USERS_REFRESH_IN_MINUTES * 60
    /\ all_users # get_all_api360_users_from_api(users, failing)

\* ---------------------------------------------------------------------------
\* A listing of the service fails during the run
\* ---------------------------------------------------------------------------

\* the listing of the departments or of the users returns the empty list
ListingUnavailable == failing \cap {"GET_departments", "GET_users"} # {}

\* C33: in a run where the listing of the departments or of the users comes back
\* empty after its retries, no create, patch or delete is sent to the service
C33_NoWriteWhenListingFails ==
    ListingUnavailable => \A i \in 1..Len(ops) : ~ops[i].issued

\* ---------------------------------------------------------------------------
\* The run repeated on the remote state it has left
\* ---------------------------------------------------------------------------

\* the runs of one behaviour
MaxRepeats == 2

InitAgain ==
    /\ ldap = SrcLdap(1, EmptyStr)
    /\ deps \in InitFileDeps
    /\ users \in InitFileUsers(deps)
    /\ failing = {}
    /\ dry_run = FALSE
    /\ keep_empty \in BOOLEAN
    /\ all_users = <<>>
    /\ hierarchy = <<>>
    /\ final_list = <<>>
    /\ deps_to_delete = {}
    /\ rec_log = <<>>
    /\ ops = <<>>
    /\ run = 1
    /\ start_deps = deps
    /\ start_users = users
    /\ pc = "load"
    /\ load_ad_data_from_file = TRUE
    /\ ad_data_file \in InitFiles
    /\ call = NoCall

\* the program has ended and is started again, on the same source and settings
\* and on the remote state it has left; start_deps and start_users stay the
\* remote state the first run started from
RunAgain ==
    /\ pc = "done"
    /\ run < MaxRepeats
    /\ run' = run + 1
    /\ all_users' = <<>>
    /\ hierarchy' = <<>>
    /\ final_list' = <<>>
    /\ deps_to_delete' = {}
    /\ rec_log' = <<>>
    /\ pc' = "load"
    /\ UNCHANGED <<ldap, deps, users, failing, dry_run, keep_empty, ops, start_deps,
                   start_users, load_ad_data_from_file, ad_data_file, call>>

NextAgain == Next \/ RunAgain

SpecAgain == InitAgain /\ [][NextAgain]_vars

\* the service has answered OK to every request sent so far
NothingRefused == \A i \in 1..Len(ops) : ops[i].issued => ops[i].ok

\* the remote state is the one the first run started from
BackAtStart == deps = start_deps /\ users = start_users

\* C34: repeated runs on a fixed source, every call answered OK, reach a run
\* without changes and stay there; so a run never ends in the remote state the
\* first run started from after changes have been issued (from that state the
\* same runs would follow again, without end)
C34_NoReturnAfterChanges ==
    (pc = "done" /\ NothingRefused /\ BackAtStart)
        => \A i \in 1..Len(ops) : ~ops[i].issued

\* ---------------------------------------------------------------------------
\* The patches of one call of assign_users_to_deps
\* ---------------------------------------------------------------------------

\* the nodes of the source that list the user: a member of the node has a mail
\* alias that is the nickname or an alias of the user
ListingNodes(user) ==
    {k \in 1..Len(final_list) :
        /\ final_list[k].id360 # ROOT_ID
        /\ \E a \in MemberAliases(final_list[k].path) : UserHasAlias(user, a)}

\* the patches of the user among the operations assign_users_to_deps computes
PlannedPatches(id) ==
    {i \in 1..Len(AssignPlan) : AssignPlan[i].kind = "patch_user" /\ AssignPlan[i].id = id}

\* C35: in one call of assign_users_to_deps no user is patched both to the root
\* and to a node, every patch to the root comes before every patch to a node,
\* and a user found in a node and listed by the source under another node is
\* patched once, to that node
C35_OnePatchNoDetour ==
    (pc = "assign" /\ ~dry_run) =>
        /\ \A i, j \in 1..Len(AssignPlan) :
              (AssignPlan[i].arg = ROOT_ID /\ AssignPlan[j].arg # ROOT_ID)
                  => AssignPlan[i].id # AssignPlan[j].id /\ i < j
        /\ \A u \in 1..Len(users) : \A k \in ListingNodes(users[u]) :
              (users[u].departmentId \in NodeDeps
                    /\ final_list[k].id360 # users[u].departmentId)
                  => \E i \in PlannedPatches(users[u].id) :
                        /\ PlannedPatches(users[u].id) = {i}
                        /\ AssignPlan[i].arg = final_list[k].id360

\* ---------------------------------------------------------------------------
\* The checks of the hierarchy and the entries built from it
\* ---------------------------------------------------------------------------

\* the node lines of the hierarchy as it was loaded
LoadedGroupLines == {j \in 1..Len(LoadedHierarchy) : IsGroupLine(LoadedHierarchy[j])}

\* C36: the three checks leave the hierarchy as it was loaded, so that after
\* them the list of prepare_deps_list_from_ad_hab has the root entry and one
\* entry per node line of the source, and a run issues at most one create per
\* external identifier
C36_ChecksLeaveHierarchy ==
    pc \in {"prepare", "delete", "reconcile", "assign", "done"} =>
        /\ hierarchy = LoadedHierarchy
        /\ Len(final_list) > 0 => Len(final_list) = 1 + Cardinality(LoadedGroupLines)
        /\ \A i, j \in CreatesIssued : ops[i].ext = ops[j].ext => i = j

\* ---------------------------------------------------------------------------
\* The encoder on a directory with groups that lack the external identifier
\* ---------------------------------------------------------------------------

MaxBadGroups == 4

\* the directories of up to MaxBadGroups groups in which any of the groups lack
\* the attribute of the external identifier, or sAMAccountName; one person, a
\* member of the root group
BadLdaps ==
    {[groups |-> [k \in 1..Len(gs) |->
                     IF k \notin bad THEN gs[k]
                     ELSE IF noSam THEN [gs[k] EXCEPT !.sam = EmptyStr]
                     ELSE [gs[k] EXCEPT !.externalId = EmptyStr]],
      persons |-> <<EncPerson("u", 1)>>,
      root |-> 1] :
        gs \in UNION {EncGroups(n) : n \in 1..MaxBadGroups},
        bad \in SUBSET (1..MaxBadGroups), noSam \in BOOLEAN}

\* the files that are no hierarchy: no file at the path, and a file whose
\* first line is neither the line of a group nor the line of a user
BadFiles ==
    {NoFile,
     <<Str("z"), GroupLine(PathA, EmptyStr, HASH_ALL, Str("x"))>>,
     <<Str("z"), GroupLine(PathA, MailOf("u"), HASH_ALL, Str("x")),
       MemberLine(PathA, "p", "u")>>}

\* a run on a directory of BadLdaps, or on a file of BadFiles
InitBad ==
    /\ \/ load_ad_data_from_file = FALSE /\ ldap \in BadLdaps /\ ad_data_file = NoFile
       \/ /\ load_ad_data_from_file = TRUE
          /\ ldap = SrcLdap(1, EmptyStr)
          /\ ad_data_file \in BadFiles
    /\ deps \in {<<RootDep>>, <<RootDep, FileDep(2, 1, "A", Str("x"))>>}
    /\ users = <<>>
    /\ failing = {}
    /\ dry_run = FALSE
    /\ keep_empty = FALSE
    /\ all_users = <<>>
    /\ hierarchy = <<>>
    /\ final_list = <<>>
    /\ deps_to_delete = {}
    /\ rec_log = <<>>
    /\ ops = <<>>
    /\ run = 1
    /\ start_deps = deps
    /\ start_users = users
    /\ pc = "load"
    /\ call = NoCall

SpecBad == InitBad /\ [][Next]_vars

\* the groups the encoder expands: the root group and the groups below it
RECURSIVE Expanded(_, _)
Expanded(L, S) ==
    LET T == S \cup {L.groups[k].dn : k \in {j \in 1..Len(L.groups) :
                                               L.groups[j].memberOf \cap S # {}}}
    IN  IF T = S THEN S ELSE Expanded(L, T)

\* the encoding meets an error: a group it expands lacks the external
\* identifier, or one below the root group lacks sAMAccountName
EncodingFails(L) ==
    \E k \in 1..Len(L.groups) :
        /\ L.groups[k].dn \in Expanded(L, {L.root})
        /\ \/ Len(L.groups[k].externalId) = 0
           \/ Len(L.groups[k].sam) = 0 /\ L.groups[k].dn # L.root

\* the run has ended where the hierarchy is loaded
EndedAtLoad == pc \in {"exit", "crashed"} /\ hierarchy = <<>>

\* C37: when the encoding of the source meets an error, in a group at any
\* depth, no hierarchy is passed on: the run ends where the hierarchy is loaded
\* and sends no request that changes the service
C37_EncodingAllOrNothing ==
    (pc # "load" /\ ~load_ad_data_from_file /\ EncodingFails(ldap))
        => EndedAtLoad /\ ops = <<>>

====
